---- MODULE Spec2Model ----
(***************************************************************************)
(* A model of tlparse's two-stage pipeline: the envelope classifier and    *)
(* the intermediate writer (src/intermediate.rs), and the rendering        *)
(* modules with their registry (src/modules/*.rs).                         *)
(*                                                                         *)
(* Strings that the code inspects character by character (compile-id       *)
(* strings) are sequences of one-character strings; Option<T> is a         *)
(* sequence of length 0 (None) or 1 (Some).                                *)
(***************************************************************************)
EXTENDS Integers, Sequences, FiniteSets, TLC

VARIABLES
    \* classifier run (envelope_type_to_file applied to a stream of tags)
    cl_input, cl_output,
    \* compile-id codec run (format_compile_id, then parse_compile_id)
    codec_pc, cid_in, cid_str, cid_out,
    \* IntermediateWriter: its fields, the directory it writes, the result of
    \* the last write call, and the manifest finalize returned
    phase, dir, chromium_events, envelope_counts, compile_ids, ranks,
    total_envelopes, last_result, manifest,
    \* history: the calls made during ingestion, in order
    history,
    \* rendering: the combined output of render_all and the file types the
    \* modules asked the context for
    combined, read_log,
    \* a registry of test modules: what each registered module's render
    \* returns, and what render_all returned
    modules, rendered,
    \* a StackTrieNode under construction and the insertions made into it
    trie_root, inserted,
    \* a stack handed to maybe_remove_convert_frame_suffixes, and the stack it
    \* left
    stack_in, stack_out,
    \* an expression table, the node a guard names, and the tree rendered
    expr_table, expr_root, expr_html,
    \* a ModuleContext over a directory prepared by hand: what a read of it
    \* returned, and what one module's render returned
    ctx_result, module_output

clVars     == <<cl_input, cl_output>>
codecVars  == <<codec_pc, cid_in, cid_str, cid_out>>
writerVars == <<phase, dir, chromium_events, envelope_counts, compile_ids,
                ranks, total_envelopes, last_result, manifest, history>>
renderVars == <<combined, read_log>>
regVars    == <<modules, rendered>>
trieVars   == <<trie_root, inserted, stack_in, stack_out>>
exprVars   == <<expr_table, expr_root, expr_html>>
ctxVars    == <<ctx_result, module_output>>
vars       == <<clVars, codecVars, writerVars, renderVars, regVars, trieVars, exprVars,
                ctxVars>>

\* ------------------------------------------------------------------ bounds
\* number of tags in a classifier run
MaxTags == 2
\* largest number used for a field of a compile id
MaxId == 10
\* number of pieces in a compile-id string of any content
MaxTokens == 4
\* number of write calls in an ingestion run
MaxWrites == 3
\* number of modules in a test registry
MaxModules == 3
\* number of records in a stream prepared by hand
MaxRecords == 2
\* number of frames in a stack whose harness suffix is removed
MaxFrames == 6
\* number of insertions into a stack trie, and frames in an inserted stack
MaxInserts == 2
MaxStackLen == 2
\* largest id in an expression table
MaxExprId == 3

\* ------------------------------------------------------------------ Option
None == <<>>
Some(x) == <<x>>
IsSome(o) == Len(o) = 1
Unwrap(o) == o[1]

\* ------------------------------------------------- IntermediateFileType
\* intermediate.rs:43-54, IntermediateFileType::all()
AllFileTypes ==
    <<"Graphs", "Codegen", "Guards", "CompilationMetrics", "ChromiumEvents",
      "Artifacts", "TensorMetadata", "Export">>

FileTypeSet == {AllFileTypes[i] : i \in 1..Len(AllFileTypes)}

\* ------------------------------------------------------------ classifier
\* A plausible slip: the "link" arm is forgotten.
envelope_type_to_file_nolink(envelope_type) ==
    CASE envelope_type \in
            {"dynamo_output_graph", "optimize_ddp_split_graph",
             "optimize_ddp_split_child", "compiled_autograd_graph",
             "aot_forward_graph", "aot_backward_graph", "aot_inference_graph",
             "aot_joint_graph", "inductor_pre_grad_graph",
             "inductor_post_grad_graph", "graph_dump"} -> Some("Graphs")
      [] envelope_type \in {"inductor_output_code", "dynamo_cpp_guards_str"}
            -> Some("Codegen")
      [] envelope_type \in
            {"dynamo_guards", "symbolic_shape_specialization",
             "guard_added_fast", "propagate_real_tensors_provenance",
             "guard_added", "create_unbacked_symbol", "expression_created"}
            -> Some("Guards")
      [] envelope_type \in
            {"compilation_metrics", "bwd_compilation_metrics",
             "aot_autograd_backward_compilation_metrics", "dynamo_start",
             "stack"} -> Some("CompilationMetrics")
      [] envelope_type = "chromium_event" -> Some("ChromiumEvents")
      [] envelope_type \in {"artifact", "dump_file"} -> Some("Artifacts")
      [] envelope_type \in
            {"describe_tensor", "describe_storage", "describe_source"}
            -> Some("TensorMetadata")
      [] envelope_type \in
            {"missing_fake_kernel", "mismatched_fake_kernel",
             "exported_program"} -> Some("Export")
      [] envelope_type = "str" -> None
      [] OTHER -> None

\* intermediate.rs:58-114
envelope_type_to_file(envelope_type) ==
    CASE envelope_type \in
            {"dynamo_output_graph", "optimize_ddp_split_graph",
             "optimize_ddp_split_child", "compiled_autograd_graph",
             "aot_forward_graph", "aot_backward_graph", "aot_inference_graph",
             "aot_joint_graph", "inductor_pre_grad_graph",
             "inductor_post_grad_graph", "graph_dump"} -> Some("Graphs")
      [] envelope_type \in {"inductor_output_code", "dynamo_cpp_guards_str"}
            -> Some("Codegen")
      [] envelope_type \in
            {"dynamo_guards", "symbolic_shape_specialization",
             "guard_added_fast", "propagate_real_tensors_provenance",
             "guard_added", "create_unbacked_symbol", "expression_created"}
            -> Some("Guards")
      [] envelope_type \in
            {"compilation_metrics", "bwd_compilation_metrics",
             "aot_autograd_backward_compilation_metrics", "dynamo_start",
             "stack"} -> Some("CompilationMetrics")
      [] envelope_type = "chromium_event" -> Some("ChromiumEvents")
      [] envelope_type \in {"artifact", "dump_file", "link"} -> Some("Artifacts")
      [] envelope_type \in
            {"describe_tensor", "describe_storage", "describe_source"}
            -> Some("TensorMetadata")
      [] envelope_type \in
            {"missing_fake_kernel", "mismatched_fake_kernel",
             "exported_program"} -> Some("Export")
      [] envelope_type = "str" -> None
      [] OTHER -> None

\* intermediate.rs:346-459: the tags detect_envelope_type can return, in the
\* order it tests the envelope's fields.
DetectableTags ==
    <<"dynamo_output_graph", "compilation_metrics", "dynamo_guards",
      "inductor_output_code", "chromium_event", "dynamo_start",
      "aot_forward_graph", "aot_backward_graph", "aot_joint_graph",
      "aot_inference_graph", "inductor_pre_grad_graph",
      "inductor_post_grad_graph", "optimize_ddp_split_graph",
      "optimize_ddp_split_child", "compiled_autograd_graph", "graph_dump",
      "dynamo_cpp_guards_str", "bwd_compilation_metrics",
      "aot_autograd_backward_compilation_metrics",
      "symbolic_shape_specialization", "guard_added_fast",
      "propagate_real_tensors_provenance", "guard_added",
      "create_unbacked_symbol", "expression_created", "artifact", "dump_file",
      "link", "describe_tensor", "describe_storage", "describe_source",
      "missing_fake_kernel", "mismatched_fake_kernel", "exported_program",
      "str", "stack">>

DetectableTagSet == {DetectableTags[i] : i \in 1..Len(DetectableTags)}

\* Tags no arm of the classifier names: the unknown tag of
\* test_envelope_type_routing, the empty tag, and near misses of real tags
\* (category names, file names, a tag in another case).
UnknownTags ==
    {"unknown_type", "", "Artifact", "graphs", "stacks", "cache",
     "chromium_events", "compilation_metrics.jsonl"}

TagUniverse == DetectableTagSet \cup UnknownTags

RECURSIVE SeqsUpTo(_, _)
SeqsUpTo(S, n) ==
    IF n = 0 THEN {<<>>}
    ELSE LET shorter == SeqsUpTo(S, n - 1)
         IN  shorter \cup {Append(s, x) : s \in {t \in shorter : Len(t) = n - 1}, x \in S}

ClIdle == cl_input = <<>> /\ cl_output = <<>>

ClInit == cl_input \in SeqsUpTo(TagUniverse, MaxTags) /\ cl_output = <<>>

\* One envelope's tag is classified; the result is recorded next to the tag.
Classify ==
    /\ cl_input # <<>>
    /\ cl_output' = Append(cl_output,
                           [tag |-> Head(cl_input),
                            file |-> envelope_type_to_file(Head(cl_input))])
    /\ cl_input' = Tail(cl_input)
    /\ UNCHANGED <<codecVars, writerVars, renderVars, regVars, trieVars, exprVars, ctxVars>>

\* ----------------------------------------------------------- compile ids
Digits == <<"0", "1", "2", "3", "4", "5", "6", "7", "8", "9">>

\* u32::to_string / Display for an unsigned integer
RECURSIVE to_string(_)
to_string(n) ==
    IF n < 10 THEN <<Digits[n + 1]>>
    ELSE to_string(n \div 10) \o <<Digits[(n % 10) + 1]>>

DigitValue(c) == CHOOSE d \in 0..9 : Digits[d + 1] = c
IsDigit(c) == \E d \in 0..9 : Digits[d + 1] = c

RECURSIVE DigitsValue(_)
DigitsValue(s) ==
    IF s = <<>> THEN 0
    ELSE DigitsValue(SubSeq(s, 1, Len(s) - 1)) * 10 + DigitValue(s[Len(s)])

\* str::parse::<u32>().ok(): an optional '+', then one or more digits.
parse(p) ==
    LET body == IF p # <<>> /\ p[1] = "+" THEN Tail(p) ELSE p
    IN  IF body # <<>> /\ \A i \in 1..Len(body) : IsDigit(body[i])
        THEN Some(DigitsValue(body))
        ELSE None

\* str::split('_'): the pieces between separators, empty pieces included.
RECURSIVE split(_, _)
split(s, sep) ==
    IF \A i \in 1..Len(s) : s[i] # sep THEN <<s>>
    ELSE LET k == CHOOSE i \in 1..Len(s) :
                    s[i] = sep /\ \A j \in 1..(i - 1) : s[j] # sep
         IN  <<SubSeq(s, 1, k - 1)>> \o split(SubSeq(s, k + 1, Len(s)), sep)

\* str::trim(): leading and trailing white space removed.
RECURSIVE trim(_)
trim(s) ==
    IF s # <<>> /\ s[1] = " " THEN trim(Tail(s))
    ELSE IF s # <<>> /\ s[Len(s)] = " " THEN trim(SubSeq(s, 1, Len(s) - 1))
    ELSE s

\* slice::get(i) with a zero-based index
get(parts, i) == IF i + 1 <= Len(parts) THEN Some(parts[i + 1]) ELSE None

\* Option::and_then(|p| p.parse().ok())
and_then_parse(o) == IF IsSome(o) THEN parse(Unwrap(o)) ELSE None

\* types::CompileId, as built at stack_trie.rs:150-155
CompileId(ca, f, fc, a) ==
    [compiled_autograd_id |-> ca, frame_id |-> f,
     frame_compile_id |-> fc, attempt |-> a]

\* intermediate.rs:326-343
format_compile_id(compile_id) ==
    IF ~IsSome(compile_id) THEN None
    ELSE LET cid == Unwrap(compile_id)
             prefix == IF IsSome(cid.compiled_autograd_id)
                       THEN <<"!">> \o to_string(Unwrap(cid.compiled_autograd_id)) \o <<"_">>
                       ELSE <<>>
             frame == IF IsSome(cid.frame_id)
                      THEN to_string(Unwrap(cid.frame_id)) ELSE <<>>
             frame_compile == IF IsSome(cid.frame_compile_id)
                              THEN to_string(Unwrap(cid.frame_compile_id)) ELSE <<>>
             attempt == IF IsSome(cid.attempt)
                        THEN <<"_">> \o to_string(Unwrap(cid.attempt)) ELSE <<>>
         IN  Some(prefix \o frame \o <<"_">> \o frame_compile \o attempt)

\* A plausible slip: the autograd branch reads the same positions as the
\* plain branch, so every field is taken one token too early.
parse_compile_id_shifted(compile_id_str) ==
    IF ~IsSome(compile_id_str) THEN None
    ELSE LET s == trim(Unwrap(compile_id_str))
             has_autograd == s # <<>> /\ s[1] = "!"
             rest == IF has_autograd THEN Tail(s) ELSE s
             parts == split(rest, "_")
         IN  Some(CompileId(IF has_autograd THEN and_then_parse(get(parts, 0)) ELSE None,
                            and_then_parse(get(parts, 0)),
                            and_then_parse(get(parts, 1)),
                            and_then_parse(get(parts, 2))))

\* A slip: the closure propagates a piece that does not parse, so one bad
\* piece loses the whole compile id.
parse_compile_id_strict(compile_id_str) ==
    IF ~IsSome(compile_id_str) THEN None
    ELSE LET s == trim(Unwrap(compile_id_str))
             has_autograd == s # <<>> /\ s[1] = "!"
             rest == IF has_autograd THEN Tail(s) ELSE s
             parts == split(rest, "_")
             used == 1..(IF has_autograd THEN 4 ELSE 3)
         IN  IF \E i \in used : i <= Len(parts) /\ ~IsSome(parse(parts[i])) THEN None
             ELSE IF has_autograd
             THEN Some(CompileId(and_then_parse(get(parts, 0)),
                                 and_then_parse(get(parts, 1)),
                                 and_then_parse(get(parts, 2)),
                                 and_then_parse(get(parts, 3))))
             ELSE Some(CompileId(None,
                                 and_then_parse(get(parts, 0)),
                                 and_then_parse(get(parts, 1)),
                                 and_then_parse(get(parts, 2))))

\* stack_trie.rs:122-157
parse_compile_id(compile_id_str) ==
    IF ~IsSome(compile_id_str) THEN None
    ELSE LET s == trim(Unwrap(compile_id_str))
             has_autograd == s # <<>> /\ s[1] = "!"
             rest == IF has_autograd THEN Tail(s) ELSE s
             parts == split(rest, "_")
         IN  IF has_autograd
             THEN Some(CompileId(and_then_parse(get(parts, 0)),
                                 and_then_parse(get(parts, 1)),
                                 and_then_parse(get(parts, 2)),
                                 and_then_parse(get(parts, 3))))
             ELSE Some(CompileId(None,
                                 and_then_parse(get(parts, 0)),
                                 and_then_parse(get(parts, 1)),
                                 and_then_parse(get(parts, 2))))

OptionalIds == {None} \cup {Some(n) : n \in 0..MaxId}

CompileIds ==
    {CompileId(ca, f, fc, a) : ca \in OptionalIds, f \in OptionalIds,
                               fc \in OptionalIds, a \in OptionalIds}

CodecIdle ==
    /\ codec_pc = "idle"
    /\ cid_in = None
    /\ cid_str = None
    /\ cid_out = None

CodecInit ==
    /\ codec_pc = "input"
    /\ cid_in \in {None} \cup {Some(c) : c \in CompileIds}
    /\ cid_str = None
    /\ cid_out = None

\* The ingestion side stores the compile id of an envelope as a string.
Encode ==
    /\ codec_pc = "input"
    /\ cid_str' = format_compile_id(cid_in)
    /\ codec_pc' = "encoded"
    /\ UNCHANGED <<cid_in, cid_out, clVars, writerVars, renderVars, regVars, trieVars, exprVars, ctxVars>>

\* A rendering module recovers the compile id from the stored string.
Decode ==
    /\ codec_pc = "encoded"
    /\ cid_out' = parse_compile_id(cid_str)
    /\ codec_pc' = "decoded"
    /\ UNCHANGED <<cid_in, cid_str, clVars, writerVars, renderVars, regVars, trieVars, exprVars, ctxVars>>

\* Pieces a compile-id string may hold between separators, each with the
\* number str::parse::<u32> reads from it (stack_trie.rs:137-146), if any
DecodeTokens ==
    { [text |-> <<>>, value |-> None],
      [text |-> <<"0">>, value |-> Some(0)],
      [text |-> <<"1", "2">>, value |-> Some(12)],
      [text |-> <<"+", "3">>, value |-> Some(3)],
      [text |-> <<"x">>, value |-> None],
      [text |-> <<"1", "x">>, value |-> None] }

\* [T]::join("_") over the texts of the pieces
RECURSIVE join(_, _)
join(tokens, sep) ==
    IF Len(tokens) = 1 THEN tokens[1].text
    ELSE tokens[1].text \o <<sep>> \o join(Tail(tokens), sep)

\* A compile-id string of any content: white space around it or not, a
\* leading '!' or not, then one or more pieces separated by '_' (every string
\* has this form: the empty string is one empty piece)
DecodeText(input) ==
    LET pad == IF input.padded THEN <<" ">> ELSE <<>>
        bang == IF input.bang THEN <<"!">> ELSE <<>>
    IN  pad \o bang \o join(input.tokens, "_") \o pad

DecodeInputs ==
    { [padded |-> p, bang |-> b, tokens |-> t] :
        p \in BOOLEAN, b \in BOOLEAN, t \in SeqsUpTo(DecodeTokens, MaxTokens) \ {<<>>} }

\* The entry a module reads carries the string; cid_in keeps what the string
\* was made of
DecodeInit ==
    /\ codec_pc = "encoded"
    /\ \E input \in DecodeInputs :
          /\ cid_in = Some(input)
          /\ cid_str = Some(DecodeText(input))
    /\ cid_out = None

\* ------------------------------------------------------------ JSON values
\* serde_json::Value, as far as the renderers look into it
JNull == [t |-> "null"]
JStr(s) == [t |-> "str", v |-> s]
JNum(n) == [t |-> "num", v |-> n]
JArr(a) == [t |-> "arr", v |-> a]

\* Value::Null and the empty object are both the function with no key.
EmptyObject == <<>>

\* Value::get(key)
md_get(md, k) == IF k \in DOMAIN md THEN Some(md[k]) ELSE None

\* Option<&Value>::and_then(|v| v.as_str())
as_str(o) == IF IsSome(o) /\ Unwrap(o).t = "str" THEN Some(Unwrap(o).v) ELSE None

\* Option<&Value>::and_then(|v| v.as_u64())
as_u64(o) == IF IsSome(o) /\ Unwrap(o).t = "num" THEN Some(Unwrap(o).v) ELSE None

unwrap_or(o, d) == IF IsSome(o) THEN Unwrap(o) ELSE d

\* ---------------------------------------------------------------- writer
\* intermediate.rs:30-41
filename(file_type) ==
    CASE file_type = "Graphs" -> "graphs.jsonl"
      [] file_type = "Codegen" -> "codegen.jsonl"
      [] file_type = "Guards" -> "guards.jsonl"
      [] file_type = "CompilationMetrics" -> "compilation_metrics.jsonl"
      [] file_type = "ChromiumEvents" -> "chromium_events.json"
      [] file_type = "Artifacts" -> "artifacts.jsonl"
      [] file_type = "TensorMetadata" -> "tensor_metadata.jsonl"
      [] file_type = "Export" -> "export.jsonl"

\* The file types for which IntermediateWriter::new opens a line stream
\* (intermediate.rs:184-190)
JsonlFileTypes == FileTypeSet \ {"ChromiumEvents"}

\* intermediate.rs:116-147 (timestamp, thread, pathname and lineno are
\* carried through unread and are left out)
IntermediateEntry(entry_type, compile_id, rank, metadata) ==
    [entry_type |-> entry_type, compile_id |-> compile_id, rank |-> rank,
     metadata |-> metadata]

\* finalize takes the writer by value (`mut self`, intermediate.rs:263-264):
\* the writer can be used only until finalize has been called on it.
writer_moved_never(ph) == TRUE

writer_owned(ph) == ph = "open"

RECURSIVE SumOver(_, _)
SumOver(f, S) ==
    IF S = {} THEN 0
    ELSE LET x == CHOOSE y \in S : TRUE IN f[x] + SumOver(f, S \ {x})

\* HashMap<String, u64> as a total function; a key is present iff its count
\* is positive (entry(..).or_insert(0) += 1 never leaves a zero behind)
CountKeys(counts) == {k \in DOMAIN counts : counts[k] > 0}
SumValues(counts) == SumOver(counts, CountKeys(counts))

\* intermediate.rs:178-201, the state after IntermediateWriter::new
WriterInit ==
    /\ phase = "open"
    /\ dir = [n \in {filename(ft) : ft \in JsonlFileTypes} |-> <<>>]
    /\ chromium_events = <<>>
    /\ envelope_counts = [t \in TagUniverse |-> 0]
    /\ compile_ids = {}
    /\ ranks = {}
    /\ total_envelopes = 0
    /\ last_result = "none"
    /\ manifest = None
    /\ history = <<>>

WriterIdle ==
    /\ phase = "idle"
    /\ dir = <<>>
    /\ chromium_events = <<>>
    /\ envelope_counts = <<>>
    /\ compile_ids = {}
    /\ ranks = {}
    /\ total_envelopes = 0
    /\ last_result = "none"
    /\ manifest = None
    /\ history = <<>>

\* A slip in the bookkeeping: the per-kind count is only updated on the
\* line-stream path, after the trace-span early return.
counts_after_skip_chromium(counts, entry_type, file_type) ==
    IF file_type = "ChromiumEvents" THEN counts
    ELSE [counts EXCEPT ![entry_type] = @ + 1]

\* intermediate.rs:211-215
counts_after(counts, entry_type, file_type) ==
    [counts EXCEPT ![entry_type] = @ + 1]

\* A slip: the rank set is assigned the record's rank instead of extended
\* by it, so it holds only the rank of the last record that had one.
ranks_after_latest(rs, rank) == IF IsSome(rank) THEN {Unwrap(rank)} ELSE rs

\* intermediate.rs:222-225
ranks_after(rs, rank) == IF IsSome(rank) THEN rs \cup {Unwrap(rank)} ELSE rs

\* A slip: the line goes to the front of the stream.
writeln_front(stream, entry) == <<entry>> \o stream

\* intermediate.rs:236-237, writeln!(writer, "{}", json): one line per record
\* at the end of the stream
writeln(stream, entry) == Append(stream, entry)

\* A slip: the counters are updated only once the append has succeeded, and
\* a failed append is reported as a success.
write_entry_append_first(entry, file_type, io_ok) ==
    /\ writer_owned(phase)
    /\ history' = Append(history, [call |-> "write_entry", entry |-> entry,
                                    file_type |-> file_type, io_ok |-> io_ok])
    /\ last_result' = "ok"
    /\ IF file_type # "ChromiumEvents" /\ ~io_ok
       THEN UNCHANGED <<total_envelopes, envelope_counts, compile_ids, ranks,
                        chromium_events, dir>>
       ELSE /\ total_envelopes' = total_envelopes + 1
            /\ envelope_counts' = counts_after(envelope_counts, entry.entry_type, file_type)
            /\ compile_ids' = IF IsSome(entry.compile_id)
                              THEN compile_ids \cup {Unwrap(entry.compile_id)}
                              ELSE compile_ids
            /\ ranks' = ranks_after(ranks, entry.rank)
            /\ IF file_type = "ChromiumEvents"
               THEN /\ chromium_events' = Append(chromium_events, entry.metadata)
                    /\ UNCHANGED dir
               ELSE /\ UNCHANGED chromium_events
                    /\ dir' = [dir EXCEPT ![filename(file_type)] = writeln(@, entry)]
    /\ UNCHANGED <<phase, manifest>>

\* intermediate.rs:204-241.  io_ok is whether the append to the stream
\* succeeds; the counters are updated before the append is attempted.
write_entry(entry, file_type, io_ok) ==
    /\ writer_owned(phase)
    /\ total_envelopes' = total_envelopes + 1
    /\ envelope_counts' = counts_after(envelope_counts, entry.entry_type, file_type)
    /\ compile_ids' = IF IsSome(entry.compile_id)
                      THEN compile_ids \cup {Unwrap(entry.compile_id)}
                      ELSE compile_ids
    /\ ranks' = ranks_after(ranks, entry.rank)
    /\ history' = Append(history, [call |-> "write_entry", entry |-> entry,
                                    file_type |-> file_type, io_ok |-> io_ok])
    /\ IF file_type = "ChromiumEvents"
       THEN /\ chromium_events' = Append(chromium_events, entry.metadata)
            /\ last_result' = "ok"
            /\ UNCHANGED dir
       ELSE /\ UNCHANGED chromium_events
            /\ IF io_ok
               THEN /\ dir' = [dir EXCEPT ![filename(file_type)] = writeln(@, entry)]
                    /\ last_result' = "ok"
               ELSE /\ UNCHANGED dir
                    /\ last_result' = "err"
    /\ UNCHANGED <<phase, manifest>>


\* IntermediateWriter::new's counters (intermediate.rs:194-198)
ZeroCounters ==
    [total_envelopes |-> 0, envelope_counts |-> [t \in TagUniverse |-> 0],
     compile_ids |-> {}, ranks |-> {}]

\* intermediate.rs:209-225, the counters of a writer after one more
\* write_entry call (whether or not its append succeeds)
counted(c, call) ==
    [total_envelopes |-> c.total_envelopes + 1,
     envelope_counts |-> counts_after(c.envelope_counts, call.entry.entry_type,
                                      call.file_type),
     compile_ids |-> IF IsSome(call.entry.compile_id)
                     THEN c.compile_ids \cup {Unwrap(call.entry.compile_id)}
                     ELSE c.compile_ids,
     ranks |-> ranks_after(c.ranks, call.entry.rank)]

\* A slip: the counters are updated but the event is not pushed to the buffer.
write_chromium_event_counted_only(event) ==
    /\ writer_owned(phase)
    /\ total_envelopes' = total_envelopes + 1
    /\ envelope_counts' = [envelope_counts EXCEPT !["chromium_event"] = @ + 1]
    /\ last_result' = "ok"
    /\ history' = Append(history,
                         [call |-> "write_chromium_event",
                          entry |-> IntermediateEntry("chromium_event", None, None, event),
                          file_type |-> "ChromiumEvents", io_ok |-> TRUE])
    /\ UNCHANGED <<phase, dir, chromium_events, compile_ids, ranks, manifest>>

\* intermediate.rs:244-252
write_chromium_event(event) ==
    /\ writer_owned(phase)
    /\ total_envelopes' = total_envelopes + 1
    /\ envelope_counts' = [envelope_counts EXCEPT !["chromium_event"] = @ + 1]
    /\ chromium_events' = Append(chromium_events, event)
    /\ last_result' = "ok"
    /\ history' = Append(history,
                         [call |-> "write_chromium_event",
                          entry |-> IntermediateEntry("chromium_event", None, None, event),
                          file_type |-> "ChromiumEvents", io_ok |-> TRUE])
    /\ UNCHANGED <<phase, dir, compile_ids, ranks, manifest>>

\* intermediate.rs:279-291: the files that exist and are non-empty, in the
\* order of IntermediateFileType::all(); chromium_events.json is always listed
RECURSIVE files_with_content(_, _)
files_with_content(d, i) ==
    IF i > Len(AllFileTypes) THEN <<>>
    ELSE LET ft == AllFileTypes[i]
             n == filename(ft)
             listed == n \in DOMAIN d /\ (Len(d[n]) > 0 \/ ft = "ChromiumEvents")
         IN  (IF listed THEN <<n>> ELSE <<>>) \o files_with_content(d, i + 1)

\* intermediate.rs:293-314 (version, generated_at, source_file, parse_mode and
\* string_table_entries are inputs copied through and are left out); the id
\* and rank lists are sorted, which a set stands for
IntermediateManifest(d) ==
    [total_envelopes |-> total_envelopes,
     envelope_counts |-> envelope_counts,
     compile_ids |-> compile_ids,
     ranks |-> ranks,
     files |-> files_with_content(d, 1)]

\* intermediate.rs:263-322.  fail_at is the step at which an I/O error makes
\* finalize return Err ("none": it succeeds).  The writer is consumed either way.
finalize(fail_at) ==
    /\ writer_owned(phase)
    /\ LET with_chromium == dir @@ ("chromium_events.json" :> chromium_events)
           m == IntermediateManifest(with_chromium)
       IN  CASE fail_at \in {"flush", "chromium"} ->
                  /\ phase' = "failed"
                  /\ UNCHANGED <<dir, manifest>>
             [] fail_at = "manifest" ->
                  /\ phase' = "failed"
                  /\ dir' = with_chromium
                  /\ UNCHANGED manifest
             [] OTHER ->
                  /\ phase' = "finalized"
                  /\ dir' = with_chromium @@ ("manifest.json" :> m)
                  /\ manifest' = Some(m)
    /\ history' = Append(history,
                         [call |-> "finalize",
                          entry |-> IntermediateEntry("", None, None, EmptyObject),
                          file_type |-> fail_at, io_ok |-> fail_at = "none"])
    /\ UNCHANGED <<chromium_events, envelope_counts, compile_ids, ranks,
                   total_envelopes, last_result>>

\* ---------------------------------------------------------------- context
\* File types that modules name but IntermediateFileType does not declare
\* (stack_trie.rs:44, cache.rs:40, compile_directory.rs:41)
UndeclaredFileTypes == {"Stacks", "Cache", "CompileArtifacts"}

\* The file a module's read resolves to.  For the declared types it is
\* filename(); for the others it is the file the module's own documentation
\* and tests name (stack_trie.rs:3,386; cache.rs:3,199), none of which the
\* writer creates.
stream_name(file_type) ==
    CASE file_type \in FileTypeSet -> filename(file_type)
      [] file_type = "Stacks" -> "stacks.jsonl"
      [] file_type = "Cache" -> "cache.jsonl"
      [] file_type = "CompileArtifacts" -> "compile_artifacts.jsonl"

\* context.rs:49-87.  Every line the writer appends is a serialized
\* IntermediateEntry, so each non-blank line parses.
read_jsonl(d, file_type) ==
    IF stream_name(file_type) \notin DOMAIN d THEN <<>>
    ELSE d[stream_name(file_type)]

\* context.rs:135-151
read_chromium_events(d) ==
    IF filename("ChromiumEvents") \notin DOMAIN d THEN <<>>
    ELSE d[filename("ChromiumEvents")]

\* context.rs:158-161, over the manifest the context was given
has_entries(m, file_type) ==
    \E i \in 1..Len(m.files) : m.files[i] = filename(file_type)

\* ---------------------------------------------------------- module output
RECURSIVE FoldLeft(_, _, _)
FoldLeft(Op(_, _), acc, s) ==
    IF s = <<>> THEN acc ELSE FoldLeft(Op, Op(acc, Head(s)), Tail(s))

\* mod.rs:57-68, ModuleOutput::default()
EmptyOutput == [files |-> <<>>, directory_entries |-> <<>>, index_contribution |-> None]

\* PathBuf::from(parent).join(name); a top-level file has the empty parent
Path(parent, name) == [parent |-> parent, name |-> name]

\* mod.rs:81-94
DirectoryEntry(name, url, suffix) == [name |-> name, url |-> url, suffix |-> suffix]

\* HashMap::entry(key).or_default().push(e) / .extend(es)
map_extend(m, k, es) ==
    IF k \in DOMAIN m THEN [m EXCEPT ![k] = @ \o es] ELSE m @@ (k :> es)

\* files.push((path, content)) followed by directory_entries.entry(key).push(..)
emit(out, key, path, content, entry) ==
    [out EXCEPT !.files = Append(@, [path |-> path, content |-> content]),
                !.directory_entries = map_extend(@, key, <<entry>>)]

\* entry.compile_id.clone().unwrap_or_else(|| "unknown".to_string())
compile_id_or(entry, default) == unwrap_or(entry.compile_id, <<default>>)

\* str::contains on names written as sequences of tokens
contains(name, pattern) ==
    \E i \in 1..Len(name) : i + Len(pattern) - 1 <= Len(name)
                            /\ SubSeq(name, i, i + Len(pattern) - 1) = pattern

\* ------------------------------------------------ CompileArtifactsModule
\* compile_artifacts.rs:269-271
is_cache_artifact(name) ==
    \/ contains(name, <<"cache_hit">>)
    \/ contains(name, <<"cache_miss">>)
    \/ contains(name, <<"cache_bypass">>)

\* compile_artifacts.rs:78-112, the body of the loop of process_graphs
process_graph_entry(out, entry) ==
    LET compile_id == compile_id_or(entry, "unknown")
        name == as_str(md_get(entry.metadata, "name"))
        fname ==
            CASE entry.entry_type = "optimize_ddp_split_child" ->
                    <<"optimize_ddp_split_child_">> \o unwrap_or(name, <<"unknown">>) \o <<".txt">>
              [] entry.entry_type = "graph_dump" ->
                    unwrap_or(name, <<"graph_dump">>) \o <<".txt">>
              [] OTHER -> <<entry.entry_type, ".txt">>
        path == Path(compile_id, fname)
    IN  emit(out, compile_id, path, [kind |-> "payload"],
             DirectoryEntry(fname, path, ""))

\* compile_artifacts.rs:123-165, the body of the loop of process_codegen
\* (the file stem of metadata.filename is kept as the token it is given as)
process_codegen_entry(out, entry) ==
    IF entry.entry_type # "inductor_output_code" THEN out
    ELSE LET compile_id == compile_id_or(entry, "unknown")
             stem == as_str(md_get(entry.metadata, "filename"))
             base == IF IsSome(stem)
                     THEN <<"inductor_output_code_">> \o Unwrap(stem)
                     ELSE <<"inductor_output_code">>
             fname == base \o <<".txt">>
             path == Path(compile_id, fname)
         IN  emit(out, compile_id, path, [kind |-> "payload"],
                  DirectoryEntry(fname, path, ""))

\* compile_artifacts.rs:176-262, the body of the loop of process_artifacts
process_artifact_entry(out, entry) ==
    LET compile_id == compile_id_or(entry, "unknown")
        md == entry.metadata
    IN  CASE entry.entry_type = "artifact" ->
                LET name == unwrap_or(as_str(md_get(md, "name")), <<"artifact">>)
                    encoding == unwrap_or(as_str(md_get(md, "encoding")), <<"string">>)
                    fname == name \o (IF encoding = <<"json">> THEN <<".json">> ELSE <<".txt">>)
                    path == Path(compile_id, fname)
                IN  IF is_cache_artifact(name) THEN out
                    ELSE emit(out, compile_id, path, [kind |-> "payload"],
                              DirectoryEntry(fname, path, ""))
          [] entry.entry_type = "dump_file" ->
                LET name == unwrap_or(as_str(md_get(md, "name")), <<"dump">>)
                    fname == name \o <<".html">>
                    path == Path(<<"dump_file">>, fname)
                IN  emit(out, <<"__global__">>, path, [kind |-> "anchored"],
                         DirectoryEntry(fname, path, ""))
          [] entry.entry_type = "link" ->
                LET name == unwrap_or(as_str(md_get(md, "name")), <<"Link">>)
                    url == unwrap_or(as_str(md_get(md, "url")), <<"#">>)
                IN  [out EXCEPT !.directory_entries =
                        map_extend(@, compile_id, <<DirectoryEntry(name, url, "")>>)]
          [] OTHER -> out

\* compile_artifacts.rs:50-68
CompileArtifactsModule_render(d) ==
    LET graphs == FoldLeft(process_graph_entry, EmptyOutput, read_jsonl(d, "Graphs"))
        codegen == FoldLeft(process_codegen_entry, graphs, read_jsonl(d, "Codegen"))
    IN  FoldLeft(process_artifact_entry, codegen, read_jsonl(d, "Artifacts"))

\* ------------------------------------------------------------ GuardsModule
\* guards.rs:50-95, the body of the loop of render
guards_entry(out, entry) ==
    LET compile_id == compile_id_or(entry, "unknown")
    IN  CASE entry.entry_type = "dynamo_guards" ->
                LET path == Path(compile_id, <<"dynamo_guards.html">>)
                IN  emit(out, compile_id, path, [kind |-> "guards"],
                         DirectoryEntry(<<"dynamo_guards.html">>, path, ""))
          [] entry.entry_type = "dynamo_cpp_guards_str" ->
                LET path == Path(compile_id, <<"dynamo_cpp_guards_str.txt">>)
                IN  emit(out, compile_id, path, [kind |-> "payload"],
                         DirectoryEntry(<<"dynamo_cpp_guards_str.txt">>, path, ""))
          [] OTHER -> out

\* guards.rs:46-102
GuardsModule_render(d) == FoldLeft(guards_entry, EmptyOutput, read_jsonl(d, "Guards"))

\* ------------------------------------------------------------- CacheModule
\* A slip: the miss pattern is looked for before the hit pattern.
cache_status_miss_first(name) ==
    IF contains(name, <<"cache_miss">>) THEN "Miss"
    ELSE IF contains(name, <<"cache_hit">>) THEN "Hit"
    ELSE IF contains(name, <<"cache_bypass">>) THEN "Bypass"
    ELSE "Unknown"

\* cache.rs:70-82
cache_status(name) ==
    IF contains(name, <<"cache_hit">>) THEN "Hit"
    ELSE IF contains(name, <<"cache_miss">>) THEN "Miss"
    ELSE IF contains(name, <<"cache_bypass">>) THEN "Bypass"
    ELSE "Unknown"

\* cache.rs:100-105; a glyph is written as its code point
cache_suffix(status) ==
    CASE status = "Hit" -> "U+2705"
      [] status = "Miss" -> "U+274C"
      [] status = "Bypass" -> "U+2753"
      [] OTHER -> ""

\* cache.rs:48-111, the body of the loop of render; acc carries the output
\* and the CacheSummary
cache_entry(acc, entry) ==
    IF entry.entry_type # "artifact" THEN acc
    ELSE LET compile_id == compile_id_or(entry, "unknown")
             md == entry.metadata
             name == unwrap_or(as_str(md_get(md, "name")), <<"cache_artifact">>)
             encoding == unwrap_or(as_str(md_get(md, "encoding")), <<"string">>)
             status == cache_status(name)
             fname == name \o (IF encoding = <<"json">> THEN <<".json">> ELSE <<".txt">>)
             path == Path(compile_id, fname)
         IN  [out |-> emit(acc.out, compile_id, path, [kind |-> "payload"],
                           DirectoryEntry(fname, path, cache_suffix(status))),
              hits |-> acc.hits + (IF status = "Hit" THEN 1 ELSE 0),
              misses |-> acc.misses + (IF status = "Miss" THEN 1 ELSE 0),
              bypasses |-> acc.bypasses + (IF status = "Bypass" THEN 1 ELSE 0)]

\* cache.rs:43-128
CacheModule_render(d) ==
    LET acc == FoldLeft(cache_entry,
                        [out |-> EmptyOutput, hits |-> 0, misses |-> 0, bypasses |-> 0],
                        read_jsonl(d, "Cache"))
        has_data == acc.hits > 0 \/ acc.misses > 0 \/ acc.bypasses > 0
    IN  [acc.out EXCEPT !.index_contribution =
            IF has_data
            THEN Some([section |-> "Cache Status",
                       html |-> [kind |-> "cache_summary", hits |-> acc.hits,
                                 misses |-> acc.misses, bypasses |-> acc.bypasses]])
            ELSE None]

\* ------------------------------------------------ CompilationMetricsModule
\* serde's reading of an Option<T> field: a missing key and null are None,
\* a value of type T is Some, anything else fails the whole struct
field_ok(md, k, types) == k \notin DOMAIN md \/ md[k].t \in (types \cup {"null"})

\* A slip: the structs of the two backward kinds lack the fail_type field, so
\* the key is ignored when their records are read.
metrics_from_value_fwd_fail_only(md, entry_type) ==
    LET full == entry_type = "compilation_metrics"
    IN  IF /\ full => field_ok(md, "fail_type", {"str"})
           /\ full => field_ok(md, "graph_op_count", {"num"})
           /\ full => field_ok(md, "restart_reasons", {"arr"})
        THEN Some([fail_type |-> IF full THEN as_str(md_get(md, "fail_type")) ELSE None,
                   graph_op_count |->
                       IF full THEN as_u64(md_get(md, "graph_op_count")) ELSE None,
                   restart_reasons |->
                       IF full /\ "restart_reasons" \in DOMAIN md
                               /\ md["restart_reasons"].t = "arr"
                       THEN Some(md["restart_reasons"].v) ELSE None])
        ELSE None

\* compilation_metrics.rs:656-697 with serde_json::from_value(..): the
\* fields the renderers branch on.  CompilationMetrics has all three;
\* BwdCompilationMetrics and AotAutogradBackwardMetrics have only fail_type
\* (other keys are ignored).  A value of the wrong type in a field of the
\* struct makes from_value fail.
metrics_from_value(md, entry_type) ==
    LET full == entry_type = "compilation_metrics"
    IN  IF /\ field_ok(md, "fail_type", {"str"})
           /\ full => field_ok(md, "graph_op_count", {"num"})
           /\ full => field_ok(md, "restart_reasons", {"arr"})
        THEN Some([fail_type |-> as_str(md_get(md, "fail_type")),
                   graph_op_count |->
                       IF full THEN as_u64(md_get(md, "graph_op_count")) ELSE None,
                   restart_reasons |->
                       IF full /\ "restart_reasons" \in DOMAIN md
                               /\ md["restart_reasons"].t = "arr"
                       THEN Some(md["restart_reasons"].v) ELSE None])
        ELSE None

\* #[derive(Default)] of the metrics structs (compilation_metrics.rs:656)
DefaultMetrics == [fail_type |-> None, graph_op_count |-> None, restart_reasons |-> None]

\* compilation_metrics.rs:205-226: compile id -> stack, later entries
\* replacing earlier ones
stack_index_entry(index, entry) ==
    IF entry.entry_type # "dynamo_start" THEN index
    ELSE IF IsSome(entry.compile_id) /\ "stack" \in DOMAIN entry.metadata
         THEN [k \in DOMAIN index \cup {Unwrap(entry.compile_id)} |->
                  IF k = Unwrap(entry.compile_id) THEN entry.metadata["stack"] ELSE index[k]]
         ELSE index

build_stack_index(d) == FoldLeft(stack_index_entry, <<>>, read_jsonl(d, "Stacks"))

\* compilation_metrics.rs:64-175, the body of the loop of render; acc carries
\* the output, the failures list and the stack index
metrics_entry(acc, entry) ==
    LET compile_id == compile_id_or(entry, "unknown")
        is_metrics == entry.entry_type \in
            {"compilation_metrics", "bwd_compilation_metrics",
             "aot_autograd_backward_compilation_metrics"}
        metrics == unwrap_or(metrics_from_value(entry.metadata, entry.entry_type), DefaultMetrics)
        fname == <<entry.entry_type, ".html">>
        path == Path(compile_id, fname)
        content == [kind |-> entry.entry_type,
                    failed |-> IsSome(metrics.fail_type),
                    has_stack |-> entry.entry_type = "compilation_metrics"
                                  /\ compile_id \in DOMAIN acc.stack_index]
    IN  IF ~is_metrics THEN acc
        ELSE [acc EXCEPT
                !.failures = IF IsSome(metrics.fail_type)
                             THEN Append(@, [compile_id |-> compile_id,
                                             fail_type |-> Unwrap(metrics.fail_type)])
                             ELSE @,
                !.out = emit(@, compile_id, path, content,
                             DirectoryEntry(fname, path, ""))]

\* compilation_metrics.rs:52-201
CompilationMetricsModule_render(d) ==
    LET acc == FoldLeft(metrics_entry,
                        [out |-> EmptyOutput, failures |-> <<>>,
                         stack_index |-> build_stack_index(d)],
                        read_jsonl(d, "CompilationMetrics"))
    IN  IF acc.failures # <<>>
        THEN [acc.out EXCEPT
                !.files = Append(@, [path |-> Path(<<>>, <<"failures_and_restarts.html">>),
                                     content |-> [kind |-> "failures",
                                                  failures |-> acc.failures]]),
                !.index_contribution =
                    Some([section |-> "Failures and Restarts",
                          html |-> [kind |-> "failures_summary",
                                    count |-> Len(acc.failures)]])]
        ELSE acc.out

\* ----------------------------------------------------- ChromiumTraceModule
\* chromium_trace.rs:42-80
ChromiumTraceModule_render(d) ==
    LET events == read_chromium_events(d)
        path == Path(<<>>, <<"chromium_events.json">>)
    IN  IF events = <<>> THEN EmptyOutput
        ELSE [files |-> <<[path |-> path, content |-> [kind |-> "events", events |-> events]]>>,
              directory_entries |->
                  (<<"__global__">> :> <<DirectoryEntry(<<"chromium_events.json">>, path, "")>>),
              index_contribution |->
                  Some([section |-> "Chromium Trace", html |-> [kind |-> "trace_link"]])]

\* ---------------------------------------------------- SymbolicShapesModule
\* symbolic_shapes.rs:241, the recursion-depth limit
MAX_DEPTH == 20

\* symbolic_shapes.rs:279-284 (result, method and arguments are only printed
\* and are left out)
ExpressionInfo(argument_ids) == [argument_ids |-> argument_ids]

\* An off-by-one in the guard: one more level is rendered before the
\* placeholder.
depth_exceeded_late(depth) == depth > MAX_DEPTH + 1

\* symbolic_shapes.rs:241
depth_exceeded(depth) == depth > MAX_DEPTH

\* symbolic_shapes.rs:234-276.  The HTML pushed is a sequence of pieces, one
\* per push site; each piece records the node it is about and the depth of
\* the call that pushed it.
RECURSIVE render_expression_tree(_, _, _)
render_expression_tree(node_id, expr_info_index, depth) ==
    IF depth_exceeded(depth)
    THEN <<[kind |-> "max_depth", node |-> node_id, depth |-> depth]>>
    ELSE IF node_id \in DOMAIN expr_info_index
    THEN LET info == expr_info_index[node_id]
             Child(html, arg_id) ==
                 html \o render_expression_tree(arg_id, expr_info_index, depth + 1)
         IN  FoldLeft(Child, <<[kind |-> "node", node |-> node_id, depth |-> depth]>>,
                      info.argument_ids)
    ELSE <<[kind |-> "not_found", node |-> node_id, depth |-> depth]>>

\* symbolic_shapes.rs:104-146, the body of the loop of build_expression_index
expression_index_entry(index, entry) ==
    IF entry.entry_type # "expression_created" THEN index
    ELSE LET id == unwrap_or(as_u64(md_get(entry.metadata, "id")), 0)
             ids == IF "argument_ids" \in DOMAIN entry.metadata
                       /\ entry.metadata["argument_ids"].t = "arr"
                    THEN entry.metadata["argument_ids"].v ELSE <<>>
         IN  [k \in DOMAIN index \cup {id} |->
                 IF k = id THEN ExpressionInfo(ids) ELSE index[k]]

\* symbolic_shapes.rs:52-87, the body of the loop of render; acc carries the
\* output, output_count and the expression index
symbolic_entry(acc, entry) ==
    IF entry.entry_type \notin {"propagate_real_tensors_provenance", "guard_added"}
    THEN acc
    ELSE LET compile_id == compile_id_or(entry, "unknown")
             fname == <<"symbolic_guard_information_">> \o to_string(acc.output_count)
                      \o <<".html">>
             path == Path(compile_id, fname)
             root == as_u64(md_get(entry.metadata, "expr_node_id"))
             content == [kind |-> entry.entry_type,
                         tree |-> IF IsSome(root)
                                  THEN render_expression_tree(Unwrap(root), acc.index, 0)
                                  ELSE <<>>]
         IN  [acc EXCEPT !.out = emit(@, compile_id, path, content,
                                      DirectoryEntry(fname, path, "")),
                         !.output_count = @ + 1]

\* symbolic_shapes.rs:43-94
SymbolicShapesModule_render(d) ==
    LET index == FoldLeft(expression_index_entry, <<>>, read_jsonl(d, "Guards"))
    IN  FoldLeft(symbolic_entry,
                 [out |-> EmptyOutput, output_count |-> 0, index |-> index],
                 read_jsonl(d, "Guards")).out

\* -------------------------------------------------------------- stack trie
\* types::FrameSummary as stack_trie.rs:179-184 and 216-227 read it; file
\* names are sequences of tokens
FrameSummary(uninterned_filename, line, name, loc) ==
    [uninterned_filename |-> uninterned_filename, line |-> line,
     name |-> name, loc |-> loc]

\* stack_trie.rs:216-227
FrameKey_from(frame) ==
    [filename |-> unwrap_or(frame.uninterned_filename, <<"(unknown)">>),
     line |-> frame.line, name |-> frame.name, loc |-> frame.loc]

\* stack_trie.rs:192-198
simplify_filename(fname) ==
    LET parts == split(fname, "#link-tree/")
    IN  IF Len(parts) > 1 THEN parts[2] ELSE fname

\* stack_trie.rs:162-173
all_target_frames ==
    <<  <<"catch_errors", "_convert_frame", "_convert_frame_assert">>,
        <<"__call__", "__call__", "__call__">>  >>

ConvertFramePy == <<"torch/_dynamo/convert_frame.py">>

\* A frame of torch/_dynamo/convert_frame.py
HarnessFrame(name) == FrameSummary(Some(ConvertFramePy), 1, name, None)

\* A slip: the length is taken anew in each turn of the loop, so a second
\* harness suffix under the first is removed as well.
remove_suffix_step_fresh_len(st, target_frames) ==
    LET frames == st.frames
        len == Len(frames)
        start == len - Len(target_frames)
        suffix == SubSeq(frames, start + 1, Len(frames))
        matches == \A i \in 1..Len(suffix) :
            /\ simplify_filename(unwrap_or(suffix[i].uninterned_filename, <<"(unknown)">>))
                  = ConvertFramePy
            /\ suffix[i].name = target_frames[i]
    IN  IF len >= Len(target_frames) /\ matches
        THEN [st EXCEPT !.frames = SubSeq(frames, 1, start)]
        ELSE st

\* stack_trie.rs:177-188, one turn of the loop; len is the length taken
\* before the loop (line 175) and is not refreshed after a truncation
remove_suffix_step(st, target_frames) ==
    LET frames == st.frames
        len == st.len
        start == len - Len(target_frames)
        \* &frames[len - 3..] zipped with the targets
        suffix == SubSeq(frames, start + 1, Len(frames))
        n == IF Len(suffix) < Len(target_frames) THEN Len(suffix) ELSE Len(target_frames)
        matches == \A i \in 1..n :
            /\ simplify_filename(unwrap_or(suffix[i].uninterned_filename, <<"(unknown)">>))
                  = ConvertFramePy
            /\ suffix[i].name = target_frames[i]
    IN  IF len >= Len(target_frames) /\ matches
        THEN [st EXCEPT !.frames = SubSeq(frames, 1, IF start < Len(frames) THEN start ELSE Len(frames))]
        ELSE st

\* stack_trie.rs:161-190
maybe_remove_convert_frame_suffixes(frames) ==
    FoldLeft(remove_suffix_step, [frames |-> frames, len |-> Len(frames)],
             all_target_frames).frames

\* Vec::reverse
reverse(s) == [i \in 1..Len(s) |-> s[Len(s) + 1 - i]]

\* stack_trie.rs:201-205.  A node is named by the keys on the way to it from
\* the root; children[p] is the IndexMap's key order at node p and
\* terminal[p] the node's terminal list.
EmptyTrie == [children |-> (<<>> :> <<>>), terminal |-> (<<>> :> <<>>)]

Descends(p, q) == Len(q) > Len(p) /\ SubSeq(q, 1, Len(p)) = p

\* A slip: children.insert(key, Default::default()) in place of
\* entry(key).or_default(): an existing child is replaced by an empty node.
child_replaced(trie, cur, key) ==
    LET child == Append(cur, key)
        kept == {p \in DOMAIN trie.children : ~Descends(child, p)} \cup {child}
    IN  [children |->
            [p \in kept |->
                IF p = child THEN <<>>
                ELSE IF p = cur /\ child \notin DOMAIN trie.children
                THEN Append(trie.children[p], key)
                ELSE trie.children[p]],
         terminal |-> [p \in kept |-> IF p = child THEN <<>> ELSE trie.terminal[p]]]

\* stack_trie.rs:235, cur.children.entry(key).or_default()
child_or_default(trie, cur, key) ==
    LET child == Append(cur, key)
    IN  IF child \in DOMAIN trie.children THEN trie
        ELSE [children |-> [trie.children EXCEPT ![cur] = Append(@, key)] @@ (child :> <<>>),
              terminal |-> trie.terminal @@ (child :> <<>>)]

\* stack_trie.rs:232-236, the walk from the root along the stack's frames
RECURSIVE walk(_, _, _)
walk(trie, cur, stack) ==
    IF stack = <<>> THEN [trie |-> trie, cur |-> cur]
    ELSE LET key == FrameKey_from(Head(stack))
         IN  walk(child_or_default(trie, cur, key), Append(cur, key), Tail(stack))

\* stack_trie.rs:231-238
insert(trie, stack, compile_id) ==
    LET w == walk(trie, <<>>, stack)
    IN  [w.trie EXCEPT !.terminal[w.cur] = Append(@, compile_id)]

\* A slip: only the children are looked at, so a trie whose only stacks have
\* no frame counts as empty.
is_empty_children_only(trie) == trie.children[<<>>] = <<>>

\* stack_trie.rs:240-242
is_empty(trie) == trie.children[<<>>] = <<>> /\ trie.terminal[<<>>] = <<>>

\* stack_trie.rs:271-286
status_class(metrics_index, t) ==
    IF t \notin DOMAIN metrics_index THEN "status-missing"
    ELSE LET m == metrics_index[t]
             AnyOf(P(_)) == \E i \in 1..Len(m) : P(m[i])
             failed(n) == IsSome(n.fail_type)
             no_ops(n) == unwrap_or(n.graph_op_count, 0) = 0
             restarted(n) == ~(IsSome(n.restart_reasons) /\ Unwrap(n.restart_reasons) = <<>>)
         IN  IF AnyOf(failed) THEN "status-error"
             ELSE IF AnyOf(no_ops) THEN "status-empty"
             ELSE IF AnyOf(restarted) THEN "status-break"
             ELSE "status-ok"

\* stack_trie.rs:269-296, the links written for a node's terminals
star(trie, node, metrics_index) ==
    [i \in 1..Len(trie.terminal[node]) |->
        LET t == trie.terminal[node][i]
        IN  IF IsSome(t)
            THEN [kind |-> "link", cid |-> Unwrap(t),
                  class |-> status_class(metrics_index, t)]
            ELSE [kind |-> "unknown"]]

\* stack_trie.rs:262-315; the HTML is a sequence of pieces
RECURSIVE fmt_inner(_, _, _)
fmt_inner(trie, node, metrics_index) ==
    LET Child(f, frame) ==
            LET child == Append(node, frame)
                inner == fmt_inner(trie, child, metrics_index)
                links == star(trie, child, metrics_index)
            IN  IF Len(trie.children[node]) > 1
                THEN f \o <<[kind |-> "li-marker"]>> \o links
                       \o <<[kind |-> "frame", frame |-> frame], [kind |-> "ul"]>>
                       \o inner \o <<[kind |-> "/ul"]>>
                ELSE f \o <<[kind |-> "li"]>> \o links
                       \o <<[kind |-> "frame", frame |-> frame]>> \o inner
    IN  FoldLeft(Child, <<>>, trie.children[node])

\* stack_trie.rs:244-260
fmt(trie, metrics_index) == fmt_inner(trie, <<>>, metrics_index)

\* -------------------------------------------------------- StackTrieModule
\* stack_trie.rs:75-95, the body of the loop of build_metrics_index.
\* types::CompilationMetricsMetadata is read with from_value(..).ok(); the
\* fields fmt_inner looks at are those of metrics_from_value.
metrics_index_entry(index, entry) ==
    IF entry.entry_type # "compilation_metrics" THEN index
    ELSE LET compile_id == parse_compile_id(entry.compile_id)
             metadata == metrics_from_value(entry.metadata, "compilation_metrics")
         IN  IF IsSome(metadata)
             THEN map_extend(index, compile_id, <<Unwrap(metadata)>>)
             ELSE index

build_metrics_index(d) ==
    FoldLeft(metrics_index_entry, <<>>, read_jsonl(d, "CompilationMetrics"))

\* stack_trie.rs:100-117, the body of the loop of build_stack_trie
stack_trie_entry(trie, entry) ==
    IF entry.entry_type # "dynamo_start" THEN trie
    ELSE LET compile_id == parse_compile_id(entry.compile_id)
             stack_value == md_get(entry.metadata, "stack")
         IN  IF IsSome(stack_value) /\ Unwrap(stack_value).t = "arr"
             THEN insert(trie,
                         reverse(maybe_remove_convert_frame_suffixes(Unwrap(stack_value).v)),
                         compile_id)
             ELSE trie

\* stack_trie.rs:97-120
build_stack_trie(d) == FoldLeft(stack_trie_entry, EmptyTrie, read_jsonl(d, "Stacks"))

\* stack_trie.rs:49-71
StackTrieModule_render(d) ==
    LET metrics_index == build_metrics_index(d)
        stack_trie == build_stack_trie(d)
    IN  IF is_empty(stack_trie) THEN EmptyOutput
        ELSE [files |-> <<>>, directory_entries |-> <<>>,
              index_contribution |->
                  Some([section |-> "Stack Trie",
                        html |-> [kind |-> "stack_trie",
                                  body |-> fmt(stack_trie, metrics_index)]])]

\* -------------------------------------------------- CompileDirectoryModule
\* compile_directory.rs:39-47
CompileDirectory_subscriptions ==
    <<"CompileArtifacts", "Guards", "CompilationMetrics", "Stacks", "Cache">>

\* A slip: a record without the field sets "success" whatever the status was.
status_after_latest(status, md) ==
    IF "fail_type" \in DOMAIN md
    THEN IF md["fail_type"].t # "null" THEN "failure" ELSE status
    ELSE "success"

\* compile_directory.rs:119-136, the status after a compilation_metrics entry
status_after(status, md) ==
    IF "fail_type" \in DOMAIN md
    THEN IF md["fail_type"].t # "null" THEN "failure" ELSE status
    ELSE IF status = "unknown" THEN "success" ELSE status

\* compile_directory.rs:82-186, the artifact an entry adds, if any
directory_artifact(entry) ==
    LET md == entry.metadata
        name == as_str(md_get(md, "name"))
        encoding == unwrap_or(as_str(md_get(md, "encoding")), <<"string">>)
        stem == as_str(md_get(md, "filename"))
    IN  CASE entry.entry_type \in
                {"dynamo_output_graph", "aot_forward_graph", "aot_backward_graph",
                 "aot_joint_graph", "aot_inference_graph", "inductor_pre_grad_graph",
                 "inductor_post_grad_graph", "optimize_ddp_split_graph",
                 "compiled_autograd_graph", "graph_dump"} ->
                Some(<<entry.entry_type, ".txt">>)
          [] entry.entry_type = "inductor_output_code" ->
                Some(IF IsSome(stem)
                     THEN <<"inductor_output_code_">> \o Unwrap(stem) \o <<".txt">>
                     ELSE <<"inductor_output_code.txt">>)
          [] entry.entry_type = "dynamo_guards" -> Some(<<"dynamo_guards.html">>)
          [] entry.entry_type = "dynamo_cpp_guards_str" ->
                Some(<<"dynamo_cpp_guards_str.txt">>)
          [] entry.entry_type = "compilation_metrics" ->
                Some(<<"compilation_metrics.html">>)
          [] entry.entry_type = "bwd_compilation_metrics" ->
                Some(<<"bwd_compilation_metrics.html">>)
          [] entry.entry_type = "artifact" /\ IsSome(name) /\ is_cache_artifact(Unwrap(name)) ->
                Some(Unwrap(name) \o (IF encoding = <<"json">> THEN <<".json">> ELSE <<".txt">>))
          [] OTHER -> None

\* compile_directory.rs:60-188, the body of the inner loop of render.  The
\* artifact list is sorted and deduplicated by name before it is written
\* (lines 191-195), which a set of names stands for.
directory_entry(directory, entry) ==
    LET compile_id == compile_id_or(entry, "__global__")
        old == IF compile_id \in DOMAIN directory THEN directory[compile_id]
               ELSE [status |-> "unknown", artifacts |-> {}, links |-> <<>>]
        artifact == directory_artifact(entry)
        new == [status |-> IF entry.entry_type = "compilation_metrics"
                           THEN status_after(old.status, entry.metadata)
                           ELSE old.status,
                artifacts |-> old.artifacts \cup
                              (IF IsSome(artifact) THEN {Unwrap(artifact)} ELSE {}),
                links |-> IF entry.entry_type = "link"
                          THEN Append(old.links,
                                      unwrap_or(as_str(md_get(entry.metadata, "name")), <<"Link">>))
                          ELSE old.links]
    IN  [k \in DOMAIN directory \cup {compile_id} |->
            IF k = compile_id THEN new ELSE directory[k]]

\* compile_directory.rs:49-205
CompileDirectoryModule_render(d) ==
    LET FileType(directory, file_type) ==
            FoldLeft(directory_entry, directory, read_jsonl(d, file_type))
        directory == FoldLeft(FileType, <<>>, CompileDirectory_subscriptions)
    IN  [files |-> <<[path |-> Path(<<>>, <<"compile_directory.json">>),
                      content |-> [kind |-> "directory", directory |-> directory]]>>,
         directory_entries |-> <<>>,
         index_contribution |-> None]

\* ------------------------------------------------------------ ExportModule
\* export.rs:43-120
ExportModule_render(d, export_mode) ==
    LET entries == read_jsonl(d, "Export")
        failures == SelectSeq(entries,
                              LAMBDA e : e.entry_type \in {"missing_fake_kernel",
                                                           "mismatched_fake_kernel"})
    IN  IF ~export_mode THEN EmptyOutput
        ELSE [files |-> <<[path |-> Path(<<>>, <<"index.html">>),
                           content |-> [kind |-> "export_index",
                                        failures |-> Len(failures)]]>>,
              directory_entries |-> <<>>,
              index_contribution |->
                  IF failures # <<>>
                  THEN Some([section |-> "Export Failures",
                             html |-> [kind |-> "export_failures",
                                       count |-> Len(failures)]])
                  ELSE None]

\* ---------------------------------------------------------------- registry
\* Result<ModuleOutput>
Ok(output) == [ok |-> TRUE, output |-> output]
Err == [ok |-> FALSE]

\* mod.rs:206-216, CombinedOutput::default()
EmptyCombined == [files |-> <<>>, directory_entries |-> <<>>, index_contributions |-> <<>>]

\* A slip: the module's files and index contribution go to the front of the
\* combined lists.
merge_front(comb, output) ==
    [files |-> output.files \o comb.files,
     directory_entries |->
        [k \in DOMAIN comb.directory_entries \cup DOMAIN output.directory_entries |->
            (IF k \in DOMAIN comb.directory_entries THEN comb.directory_entries[k] ELSE <<>>)
            \o (IF k \in DOMAIN output.directory_entries
                THEN output.directory_entries[k] ELSE <<>>)],
     index_contributions |->
        IF IsSome(output.index_contribution)
        THEN <<Unwrap(output.index_contribution)>> \o comb.index_contributions
        ELSE comb.index_contributions]

\* A slip: directory_entries.insert(compile_id, entries) in place of
\* entry(compile_id).or_default().extend(entries): a key's earlier entries
\* are replaced.
merge_replacing(comb, output) ==
    [files |-> comb.files \o output.files,
     directory_entries |->
        [k \in DOMAIN comb.directory_entries \cup DOMAIN output.directory_entries |->
            IF k \in DOMAIN output.directory_entries
            THEN output.directory_entries[k] ELSE comb.directory_entries[k]],
     index_contributions |->
        IF IsSome(output.index_contribution)
        THEN Append(comb.index_contributions, Unwrap(output.index_contribution))
        ELSE comb.index_contributions]

\* mod.rs:220-233
merge(comb, output) ==
    [files |-> comb.files \o output.files,
     directory_entries |->
        [k \in DOMAIN comb.directory_entries \cup DOMAIN output.directory_entries |->
            (IF k \in DOMAIN comb.directory_entries THEN comb.directory_entries[k] ELSE <<>>)
            \o (IF k \in DOMAIN output.directory_entries
                THEN output.directory_entries[k] ELSE <<>>)],
     index_contributions |->
        IF IsSome(output.index_contribution)
        THEN Append(comb.index_contributions, Unwrap(output.index_contribution))
        ELSE comb.index_contributions]

\* A slip: the module's result is propagated with `?`, so the first failing
\* module ends the run with its error.
render_all_propagating(results) ==
    IF \E i \in 1..Len(results) : ~results[i].ok THEN Err
    ELSE LET Step(comb, result) == merge(comb, result.output)
         IN  Ok(FoldLeft(Step, EmptyCombined, results))

\* mod.rs:150-164; results[i] is what the i-th registered module's render
\* returns
render_all(results) ==
    LET Step(comb, result) == IF result.ok THEN merge(comb, result.output) ELSE comb
    IN  Ok(FoldLeft(Step, EmptyCombined, results))

\* The modules: name(), id(), subscriptions(), and the file types render
\* asks the context for (the `read_jsonl` / `read_chromium_events` calls)
Module(name, id, subscriptions, reads) ==
    [name |-> name, id |-> id, subscriptions |-> subscriptions, reads |-> reads]

\* compile_artifacts.rs:34-48,78,123,176
CompileArtifactsModule ==
    Module("Compile Artifacts", "compile_artifacts",
           {"Graphs", "Codegen", "Artifacts"}, {"Graphs", "Codegen", "Artifacts"})
\* guards.rs:34-44,50
GuardsModule == Module("Dynamo Guards", "guards", {"Guards"}, {"Guards"})
\* cache.rs:31-41,48
CacheModule == Module("Cache", "cache", {"Cache"}, {"Cache"})
\* compilation_metrics.rs:36-50,64,208,234
CompilationMetricsModule ==
    Module("Compilation Metrics", "compilation_metrics",
           {"CompilationMetrics", "Guards", "Stacks"},
           {"CompilationMetrics", "Guards", "Stacks"})
\* chromium_trace.rs:30-43
ChromiumTraceModule ==
    Module("Chromium Trace", "chromium_trace", {"ChromiumEvents"}, {"ChromiumEvents"})
\* symbolic_shapes.rs:31-41,52,104
SymbolicShapesModule == Module("Symbolic Shapes", "symbolic_shapes", {"Guards"}, {"Guards"})
\* stack_trie.rs:34-47,78,100
StackTrieModule ==
    Module("Stack Trie", "stack_trie", {"Stacks", "CompilationMetrics"},
           {"Stacks", "CompilationMetrics"})
\* compile_directory.rs:31-47,53-54
CompileDirectoryModule ==
    Module("Compile Directory", "compile_directory",
           {CompileDirectory_subscriptions[i] : i \in 1..Len(CompileDirectory_subscriptions)},
           {CompileDirectory_subscriptions[i] : i \in 1..Len(CompileDirectory_subscriptions)})
\* export.rs:30-41,48
ExportModule == Module("Export", "export", {"Export"}, {"Export"})

\* mod.rs:175-193
with_defaults ==
    <<CompileArtifactsModule, GuardsModule, CacheModule, CompilationMetricsModule,
      ChromiumTraceModule, SymbolicShapesModule, StackTrieModule,
      CompileDirectoryModule>>

\* mod.rs:196-202
for_export_mode == <<ExportModule, SymbolicShapesModule>>

\* Module::render of a registered module (dynamic dispatch on the module)
render(module, d, export_mode) ==
    CASE module.id = "compile_artifacts" -> Ok(CompileArtifactsModule_render(d))
      [] module.id = "guards" -> Ok(GuardsModule_render(d))
      [] module.id = "cache" -> Ok(CacheModule_render(d))
      [] module.id = "compilation_metrics" -> Ok(CompilationMetricsModule_render(d))
      [] module.id = "chromium_trace" -> Ok(ChromiumTraceModule_render(d))
      [] module.id = "symbolic_shapes" -> Ok(SymbolicShapesModule_render(d))
      [] module.id = "stack_trie" -> Ok(StackTrieModule_render(d))
      [] module.id = "compile_directory" -> Ok(CompileDirectoryModule_render(d))
      [] module.id = "export" -> Ok(ExportModule_render(d, export_mode))

\* ------------------------------------------------- a registry of modules
\* What render can return for the module registered i-th: a module is any
\* implementation of the Module trait (mod.rs:42-54), such as the TestModule
\* of mod.rs:240-262.  Each module writes under its own directory.
TestFile(i, name) ==
    [path |-> Path(to_string(i), name), content |-> [kind |-> "test"]]
TestEntry(i, name) == DirectoryEntry(name, Path(to_string(i), name), "")

TestOutputs(i) ==
    { EmptyOutput,
      [files |-> <<TestFile(i, <<"a.txt">>)>>,
       directory_entries |-> (<<"0", "_", "0">> :> <<TestEntry(i, <<"a.txt">>)>>),
       index_contribution |-> Some([section |-> to_string(i), html |-> [kind |-> "test"]])],
      [files |-> <<TestFile(i, <<"a.txt">>), TestFile(i, <<"b.txt">>)>>,
       directory_entries |-> (<<"0", "_", "0">> :> <<TestEntry(i, <<"a.txt">>)>>)
                             @@ (<<"__global__">> :> <<TestEntry(i, <<"b.txt">>)>>),
       index_contribution |-> None] }

TestResults(i) == {Err} \cup {Ok(o) : o \in TestOutputs(i)}

\* ModuleRegistry::new(), mod.rs:133-137
RegInit == modules = <<>> /\ rendered = None

\* mod.rs:140-142
register ==
    /\ rendered = None
    /\ Len(modules) < MaxModules
    /\ \E r \in TestResults(Len(modules) + 1) : modules' = Append(modules, r)
    /\ UNCHANGED rendered
    /\ UNCHANGED <<clVars, codecVars, writerVars, renderVars, trieVars, exprVars, ctxVars>>

\* mod.rs:150-164 on the registry built so far
RenderRegistry ==
    /\ rendered = None
    /\ rendered' = Some(render_all(modules))
    /\ UNCHANGED modules
    /\ UNCHANGED <<clVars, codecVars, writerVars, renderVars, trieVars, exprVars, ctxVars>>

\* ------------------------------------------------- building a stack trie
TrieFrames ==
    { FrameSummary(Some(<<"a.py">>), 1, "f", None),
      FrameSummary(Some(<<"a.py">>), 2, "f", None),
      FrameSummary(None, 1, "f", None) }

TrieStacks == SeqsUpTo(TrieFrames, MaxStackLen)

TrieCompileIds == {None, Some(CompileId(None, Some(0), Some(0), None))}

\* StackTrieNode::default(), stack_trie.rs:201-205
TrieInit ==
    /\ trie_root = EmptyTrie
    /\ inserted = <<>>
    /\ stack_in = None
    /\ stack_out = None

\* stack_trie.rs:231-238 on the trie built so far
Insert ==
    /\ Len(inserted) < MaxInserts
    /\ \E stack \in TrieStacks, compile_id \in TrieCompileIds :
          /\ trie_root' = insert(trie_root, stack, compile_id)
          /\ inserted' = Append(inserted, [stack |-> stack, compile_id |-> compile_id])
    /\ UNCHANGED <<stack_in, stack_out>>
    /\ UNCHANGED <<clVars, codecVars, writerVars, renderVars, regVars, exprVars, ctxVars>>

\* ------------------------------------------ stripping the harness frames
\* Frames a stack may hold: the three of the first target sequence, the one
\* of the second under a "#link-tree/" prefix (stack_trie.rs:192-198), the
\* same function in another file, and a frame of the user's code
StripFrames ==
    { HarnessFrame("catch_errors"), HarnessFrame("_convert_frame"),
      HarnessFrame("_convert_frame_assert"),
      FrameSummary(Some(<<"/data/", "#link-tree/">> \o ConvertFramePy), 1, "__call__", None),
      FrameSummary(Some(<<"torch/nn/module.py">>), 1, "__call__", None),
      FrameSummary(Some(<<"model.py">>), 10, "forward", None) }

StripInit ==
    /\ trie_root = EmptyTrie
    /\ inserted = <<>>
    /\ stack_in \in {Some(st) : st \in SeqsUpTo(StripFrames, MaxFrames)}
    /\ stack_out = None

\* The call at stack_trie.rs:111
RemoveSuffixes ==
    /\ IsSome(stack_in)
    /\ stack_out = None
    /\ stack_out' = Some(maybe_remove_convert_frame_suffixes(Unwrap(stack_in)))
    /\ UNCHANGED <<trie_root, inserted, stack_in>>
    /\ UNCHANGED <<clVars, codecVars, writerVars, renderVars, regVars, exprVars, ctxVars>>

\* --------------------------------------------- rendering expression trees
\* The argument ids a table entry may list: none, one id (present in the
\* table or not), and for node 1 also two
ExprArgChoices(id) ==
    {<<>>} \cup {<<j>> : j \in 1..(MaxExprId + 1)} \cup (IF id = 1 THEN {<<2, 3>>} ELSE {})

ExprTables ==
    UNION { {f \in [D -> {ExpressionInfo(a) : a \in UNION {ExprArgChoices(id) : id \in D}}] :
                \A id \in D : f[id].argument_ids \in ExprArgChoices(id)} :
            D \in SUBSET (1..MaxExprId) }

ExprIdle == expr_table = <<>> /\ expr_root = 0 /\ expr_html = None

\* The index build_expression_index returned and the expr_node_id of a guard
ExprInit ==
    /\ expr_table \in ExprTables
    /\ expr_root \in 1..(MaxExprId + 1)
    /\ expr_html = None

\* symbolic_shapes.rs:218, the call that starts the recursion
RenderExpressionTree ==
    /\ expr_html = None
    /\ expr_html' = Some(render_expression_tree(expr_root, expr_table, 0))
    /\ UNCHANGED <<expr_table, expr_root>>
    /\ UNCHANGED <<clVars, codecVars, writerVars, renderVars, regVars, trieVars, ctxVars>>

\* ------------------------------------------- a context over a directory
CtxIdle == ctx_result = None /\ module_output = None

\* ---------------------------------------------------------------- pipeline
\* The records an ingestion run hands to the writer: each is the
\* IntermediateEntry built from one envelope (compile_id through
\* format_compile_id, metadata through extract_metadata, intermediate.rs:462-534)
\* together with the file type envelope_type_to_file gives for its tag.  An
\* envelope whose tag is classified None makes no call.
CidA == Some(CompileId(None, Some(0), Some(0), None))
CidB == Some(CompileId(None, Some(1), Some(0), None))

Frame1 == FrameSummary(Some(<<"model.py">>), 10, "forward", None)

Entries ==
    { IntermediateEntry("compilation_metrics", format_compile_id(CidA), Some(0),
                        [fail_type |-> JStr(<<"Unsupported">>), graph_op_count |-> JNum(1),
                         restart_reasons |-> JArr(<<>>)]),
      IntermediateEntry("compilation_metrics", format_compile_id(CidA), Some(0),
                        [fail_type |-> JNull, graph_op_count |-> JNum(1),
                         restart_reasons |-> JArr(<<>>)]),
      IntermediateEntry("dynamo_start", format_compile_id(CidA), Some(0),
                        [stack |-> JArr(<<Frame1>>)]),
      IntermediateEntry("artifact", format_compile_id(CidA), Some(0),
                        [name |-> JStr(<<"cache_hit", "_abc">>)]),
      IntermediateEntry("artifact", format_compile_id(CidB), Some(1),
                        [name |-> JStr(<<"fx_graph">>)]),
      IntermediateEntry("dynamo_output_graph", format_compile_id(CidB), Some(1),
                        EmptyObject),
      IntermediateEntry("chromium_event", None, None, EmptyObject),
      IntermediateEntry("dynamo_cpp_guards_str", format_compile_id(CidA), Some(0),
                        EmptyObject),
      IntermediateEntry("guard_added", format_compile_id(CidA), Some(0),
                        [expr_node_id |-> JNum(1)]),
      IntermediateEntry("missing_fake_kernel", None, Some(0), EmptyObject) }

\* A tag the classifier drops is never written
WriteCalls ==
    {[entry |-> e, file_type |-> Unwrap(envelope_type_to_file(e.entry_type))] :
        e \in {x \in Entries : IsSome(envelope_type_to_file(x.entry_type))}}

RenderIdle == combined = None /\ read_log = {}

Init ==
    /\ ClIdle
    /\ CodecIdle
    /\ WriterInit
    /\ RenderIdle
    /\ RegInit
    /\ TrieInit
    /\ ExprIdle
    /\ CtxIdle

\* A call of write_entry during ingestion
WriteEntry ==
    /\ Len(history) < MaxWrites
    /\ \E c \in WriteCalls, io_ok \in BOOLEAN :
          /\ (c.file_type = "ChromiumEvents" => io_ok)
          /\ write_entry(c.entry, c.file_type, io_ok)
    /\ UNCHANGED <<clVars, codecVars, renderVars, regVars, trieVars, exprVars, ctxVars>>

\* A call of write_chromium_event during ingestion
WriteChromiumEvent ==
    /\ Len(history) < MaxWrites
    /\ write_chromium_event([name |-> JStr(<<"span">>)])
    /\ UNCHANGED <<clVars, codecVars, renderVars, regVars, trieVars, exprVars, ctxVars>>

\* The call of finalize that ends ingestion
Finalize ==
    /\ Len(history) <= MaxWrites
    /\ \E fail_at \in {"none", "flush", "chromium", "manifest"} : finalize(fail_at)
    /\ UNCHANGED <<clVars, codecVars, renderVars, regVars, trieVars, exprVars, ctxVars>>

\* A slip: the modules write their files themselves, into the directory the
\* context reads from (the tests give one directory as both intermediate_dir
\* and output_dir, stack_trie.rs:397-398).
RenderAll_in_place ==
    /\ phase = "finalized"
    /\ \E export_mode \in BOOLEAN :
          LET registry == IF export_mode THEN for_export_mode ELSE with_defaults
              results == [i \in 1..Len(registry) |-> render(registry[i], dir, export_mode)]
              out == render_all(results).output
              top == {i \in 1..Len(out.files) : out.files[i].path.parent = <<>>}
              written == {out.files[i].path.name[1] : i \in top}
          IN  /\ combined' = Some([export_mode |-> export_mode,
                                   result |-> render_all(results)])
              /\ read_log' = UNION {registry[i].reads : i \in 1..Len(registry)}
              /\ dir' = [n \in DOMAIN dir \cup written |->
                            IF n \in written THEN <<>> ELSE dir[n]]
    /\ phase' = "rendered"
    /\ UNCHANGED <<chromium_events, envelope_counts, compile_ids, ranks,
                   total_envelopes, last_result, manifest, history>>
    /\ UNCHANGED <<clVars, codecVars, regVars, trieVars, exprVars, ctxVars>>

\* mod.rs:150-164 over the registry the run's mode selects (mod.rs:175-202),
\* against the finalized intermediate directory
RenderAll ==
    /\ phase = "finalized"
    /\ \E export_mode \in BOOLEAN :
          LET registry == IF export_mode THEN for_export_mode ELSE with_defaults
              results == [i \in 1..Len(registry) |-> render(registry[i], dir, export_mode)]
          IN  /\ combined' = Some([export_mode |-> export_mode,
                                   result |-> render_all(results)])
              /\ read_log' = UNION {registry[i].reads : i \in 1..Len(registry)}
    /\ phase' = "rendered"
    /\ UNCHANGED <<dir, chromium_events, envelope_counts, compile_ids, ranks,
                   total_envelopes, last_result, manifest, history>>
    /\ UNCHANGED <<clVars, codecVars, regVars, trieVars, exprVars, ctxVars>>

Next == WriteEntry \/ WriteChromiumEvent \/ Finalize \/ RenderAll

Spec == Init /\ [][Next]_vars

\* ----------------------------------- modules and reads over a directory
\* No IntermediateWriter is involved: the directory is prepared by hand, as
\* the modules' tests do (stack_trie.rs:380-400, compilation_metrics.rs:755-785)
NoWriter ==
    /\ phase = "idle"
    /\ chromium_events = <<>>
    /\ envelope_counts = <<>>
    /\ compile_ids = {}
    /\ ranks = {}
    /\ total_envelopes = 0
    /\ last_result = "none"
    /\ manifest = None
    /\ history = <<>>

\* The metadata of a compilation_metrics record: the serialized metrics
\* struct (extract_metadata, intermediate.rs:465-467), each field null or set
MetricsMetadata ==
    { [fail_type |-> f, graph_op_count |-> g, restart_reasons |-> r] :
        f \in {JNull, JStr(<<"Unsupported">>)},
        g \in {JNull, JNum(0), JNum(1)},
        r \in {JNull, JArr(<<>>), JArr(<<JStr(<<"graph break">>)>>)} }

\* Metrics records of the three kinds compilation_metrics.rs:81,123,148
\* renders, for two compile ids
MetricsRecords ==
    { IntermediateEntry("compilation_metrics", format_compile_id(CidA), Some(0), md) :
        md \in MetricsMetadata }
    \cup { IntermediateEntry("compilation_metrics", format_compile_id(CidB), Some(0),
                             [fail_type |-> JStr(<<"Unsupported">>),
                              graph_op_count |-> JNum(1), restart_reasons |-> JArr(<<>>)]) }
    \cup { IntermediateEntry(t, format_compile_id(CidA), Some(0), [fail_type |-> f]) :
             t \in {"bwd_compilation_metrics", "aot_autograd_backward_compilation_metrics"},
             f \in {JNull, JStr(<<"Unsupported">>)} }

\* A dynamo_start record with its stack (extract_metadata, intermediate.rs:475-485)
StartRecord(cid) ==
    IntermediateEntry("dynamo_start", format_compile_id(cid), Some(0),
                      [stack |-> JArr(<<Frame1>>)])

\* The three frames of all_target_frames[1] (stack_trie.rs:163-167)
HarnessFrames ==
    [i \in 1..3 |-> HarnessFrame(all_target_frames[1][i])]

\* Records a stacks stream may hold: a dynamo_start with a stack of one
\* frame, of no frame, and of the harness frames only; a dynamo_start with no
\* stack key and with a stack that is not an array (stack_trie.rs:108-109);
\* and a record of another kind that has a stack (stack_trie.rs:101-103)
StackRecords ==
    { StartRecord(CidA),
      IntermediateEntry("dynamo_start", format_compile_id(CidB), Some(0),
                        [stack |-> JArr(<<>>)]),
      IntermediateEntry("dynamo_start", None, Some(0), [stack |-> JArr(HarnessFrames)]),
      IntermediateEntry("dynamo_start", format_compile_id(CidA), Some(0), EmptyObject),
      IntermediateEntry("dynamo_start", format_compile_id(CidA), Some(0),
                        [stack |-> JNull]),
      IntermediateEntry("artifact", format_compile_id(CidA), Some(0),
                        [stack |-> JArr(<<Frame1>>)]) }

\* Directories with one metrics record and a stacks stream that is absent
\* or holds any records
StackDirs ==
    LET metrics == "compilation_metrics.jsonl" :>
                      <<IntermediateEntry("compilation_metrics", format_compile_id(CidA),
                                          Some(0),
                                          [fail_type |-> JNull, graph_op_count |-> JNum(1),
                                           restart_reasons |-> JArr(<<>>)])>>
    IN  {metrics} \cup { metrics @@ ("stacks.jsonl" :> records) :
                           records \in SeqsUpTo(StackRecords, MaxRecords) }

\* An artifact record of the cache stream (cache.rs:199-203)
CacheRecord(cid, name) ==
    IntermediateEntry("artifact", format_compile_id(cid), Some(0), [name |-> JStr(name)])

\* Records a cache stream may hold: artifacts whose name has one of the
\* three patterns, two of them, or none; an artifact with no name; and a
\* record of another kind whose name has a pattern (cache.rs:49-51)
CacheRecords ==
    { CacheRecord(CidA, <<"fx_graph_", "cache_hit", "_abc">>),
      CacheRecord(CidA, <<"fx_graph_", "cache_miss">>),
      CacheRecord(CidB, <<"cache_bypass", "_abc">>),
      CacheRecord(CidA, <<"cache_miss", "_", "cache_hit">>),
      CacheRecord(CidB, <<"cache_bypass", "_", "cache_miss">>),
      CacheRecord(CidA, <<"fx_graph">>),
      IntermediateEntry("artifact", None, Some(0), EmptyObject),
      IntermediateEntry("dump_file", format_compile_id(CidA), Some(0),
                        [name |-> JStr(<<"cache_hit">>)]) }

\* Directories with a cache stream
CacheDirs == { "cache.jsonl" :> records : records \in SeqsUpTo(CacheRecords, MaxRecords) }

\* compilation_metrics records as compile_directory.rs:127-135 tells them
\* apart: fail_type set, fail_type null, and no fail_type field (metadata
\* read from a line is any JSON object, compile_directory.rs:292), for two
\* compile ids
StatusRecords ==
    { IntermediateEntry("compilation_metrics", format_compile_id(cid), Some(0), md) :
        cid \in {CidA, CidB},
        md \in { [fail_type |-> JStr(<<"Unsupported">>), graph_op_count |-> JNum(1),
                  restart_reasons |-> JArr(<<>>)],
                 [fail_type |-> JNull, graph_op_count |-> JNum(1),
                  restart_reasons |-> JArr(<<>>)],
                 [graph_op_count |-> JNum(1), restart_reasons |-> JArr(<<>>)] } }

\* Directories with a metrics stream of such records
StatusDirs ==
    { "compilation_metrics.jsonl" :> records :
        records \in SeqsUpTo(StatusRecords, MaxRecords) }

\* Directories holding a metrics stream and a stacks stream with one stack
\* for each of the two compile ids, and the directories of StackDirs, of
\* CacheDirs and of StatusDirs
ModuleDirs ==
    { ("compilation_metrics.jsonl" :> records)
        @@ ("stacks.jsonl" :> <<StartRecord(CidA), StartRecord(CidB)>>) :
      records \in SeqsUpTo(MetricsRecords, MaxRecords) }
    \cup StackDirs \cup CacheDirs \cup StatusDirs

ModulesInit == NoWriter /\ dir \in ModuleDirs /\ ctx_result = None /\ module_output = None

\* Module::render (mod.rs:53) of one module against the directory, as in
\* stack_trie.rs:398-400 and compilation_metrics.rs:773-775
RenderModule ==
    /\ phase = "idle"
    /\ module_output = None
    /\ \E m \in {CompilationMetricsModule, StackTrieModule, CacheModule,
                 CompileDirectoryModule} :
          module_output' = Some([id |-> m.id, result |-> render(m, dir, FALSE)])
    /\ UNCHANGED ctx_result
    /\ UNCHANGED <<clVars, codecVars, writerVars, renderVars, regVars, trieVars, exprVars>>

\* A line that is blank after trim (context.rs:71) and a line that is not a
\* serialized IntermediateEntry (context.rs:75)
BlankLine == [line |-> "blank"]
GarbageLine == [line |-> "garbage"]

\* A slip: the file is opened without the check that it exists, so an absent
\* file is an error.
read_jsonl_result_open_first(d, file_type) ==
    IF stream_name(file_type) \notin DOMAIN d THEN Err
    ELSE LET lines == d[stream_name(file_type)]
         IN  IF \E i \in 1..Len(lines) : lines[i] = GarbageLine THEN Err
             ELSE Ok(SelectSeq(lines, LAMBDA l : l # BlankLine))

\* A slip: a line that does not parse is skipped, as a blank line is.
read_jsonl_result_skipping(d, file_type) ==
    IF stream_name(file_type) \notin DOMAIN d THEN Ok(<<>>)
    ELSE LET lines == d[stream_name(file_type)]
         IN  Ok(SelectSeq(lines, LAMBDA l : l # BlankLine /\ l # GarbageLine))

\* context.rs:49-87 over a file of any lines: Ok with the parsed entries, or
\* Err at the first line that does not parse
read_jsonl_result(d, file_type) ==
    IF stream_name(file_type) \notin DOMAIN d THEN Ok(<<>>)
    ELSE LET lines == d[stream_name(file_type)]
         IN  IF \E i \in 1..Len(lines) : lines[i] = GarbageLine THEN Err
             ELSE Ok(SelectSeq(lines, LAMBDA l : l # BlankLine))

\* context.rs:135-151 over a file of any content: Ok with the array's
\* elements, or Err if the content is not a JSON array
read_chromium_events_result(d) ==
    IF filename("ChromiumEvents") \notin DOMAIN d THEN Ok(<<>>)
    ELSE LET content == d[filename("ChromiumEvents")]
         IN  IF \E i \in 1..Len(content) : content[i] = GarbageLine THEN Err
             ELSE Ok(content)

\* A record as any category's stream may hold it
ReadRecord(cid) ==
    IntermediateEntry("artifact", format_compile_id(cid), Some(0),
                      [name |-> JStr(<<"fx_graph">>)])

\* Directories in which each category's file is absent, well-formed (with a
\* blank line between two records) or malformed (with a line that does not
\* parse between two records)
ReadContents(file_type) ==
    IF file_type = "ChromiumEvents"
    THEN { <<[name |-> JStr(<<"span">>)]>>, <<GarbageLine>> }
    ELSE { <<ReadRecord(CidA), BlankLine, ReadRecord(CidB)>>,
           <<ReadRecord(CidA), GarbageLine, ReadRecord(CidB)>> }

ReadDirs ==
    UNION { { d \in [{filename(ft) : ft \in D} -> UNION {ReadContents(ft) : ft \in D}] :
                \A ft \in D : d[filename(ft)] \in ReadContents(ft) } :
            D \in SUBSET FileTypeSet }

ReadInit == NoWriter /\ dir \in ReadDirs /\ ctx_result = None /\ module_output = None

\* A call of ModuleContext::read_jsonl (context.rs:49)
ReadJsonl ==
    /\ phase = "idle"
    /\ ctx_result = None
    /\ \E ft \in JsonlFileTypes :
          ctx_result' = Some([file_type |-> ft, result |-> read_jsonl_result(dir, ft)])
    /\ UNCHANGED module_output
    /\ UNCHANGED <<clVars, codecVars, writerVars, renderVars, regVars, trieVars, exprVars>>

\* A call of ModuleContext::read_chromium_events (context.rs:135)
ReadChromiumEvents ==
    /\ phase = "idle"
    /\ ctx_result = None
    /\ ctx_result' = Some([file_type |-> "ChromiumEvents",
                           result |-> read_chromium_events_result(dir)])
    /\ UNCHANGED module_output
    /\ UNCHANGED <<clVars, codecVars, writerVars, renderVars, regVars, trieVars, exprVars>>

\* The read a module makes of a category: read_chromium_events for the trace
\* array (chromium_trace.rs:43), read_jsonl for every other (e.g. guards.rs:50)
read_result(d, file_type) ==
    IF file_type = "ChromiumEvents" THEN read_chromium_events_result(d)
    ELSE read_jsonl_result(d, file_type)

\* What a module's reads hand to its render when each of them is Ok
entries_read(module, d) ==
    LET present == {ft \in module.reads : stream_name(ft) \in DOMAIN d}
    IN  [n \in {stream_name(ft) : ft \in present} |->
            read_result(d, CHOOSE ft \in present : stream_name(ft) = n).output]

\* Module::render with its reads: every read is followed by `?`
\* (compile_artifacts.rs:78,123,176; guards.rs:50; cache.rs:48;
\* compilation_metrics.rs:58,61,64; chromium_trace.rs:43; symbolic_shapes.rs:52,104;
\* stack_trie.rs:51,54; compile_directory.rs:54; export.rs:48), and no module
\* returns before it has made all its reads, so a read that fails ends render
\* with the error
render_result(module, d, export_mode) ==
    IF \E ft \in module.reads : ~read_result(d, ft).ok THEN Err
    ELSE render(module, entries_read(module, d), export_mode)

\* mod.rs:150-164 over the registry the run's mode selects, against the
\* directory prepared by hand
RenderDirectory ==
    /\ phase = "idle"
    /\ combined = None
    /\ ctx_result = None
    /\ \E export_mode \in BOOLEAN :
          LET registry == IF export_mode THEN for_export_mode ELSE with_defaults
              results == [i \in 1..Len(registry) |->
                            render_result(registry[i], dir, export_mode)]
          IN  /\ combined' = Some([export_mode |-> export_mode,
                                   result |-> render_all(results)])
              /\ read_log' = UNION {registry[i].reads : i \in 1..Len(registry)}
    /\ UNCHANGED <<clVars, codecVars, writerVars, regVars, trieVars, exprVars, ctxVars>>

\* --------------------------------------------------------- specifications
\* The classifier applied to a bounded stream of tags
InitClassifier ==
    ClInit /\ CodecIdle /\ WriterIdle /\ RenderIdle /\ RegInit /\ TrieInit /\ ExprIdle
    /\ CtxIdle
SpecClassifier == InitClassifier /\ [][Classify]_vars

\* format_compile_id followed by parse_compile_id over all bounded ids
InitCodec ==
    ClIdle /\ CodecInit /\ WriterIdle /\ RenderIdle /\ RegInit /\ TrieInit /\ ExprIdle
    /\ CtxIdle
NextCodec == Encode \/ Decode
SpecCodec == InitCodec /\ [][NextCodec]_vars

\* parse_compile_id over strings of any content
InitDecode ==
    ClIdle /\ DecodeInit /\ WriterIdle /\ RenderIdle /\ RegInit /\ TrieInit /\ ExprIdle
    /\ CtxIdle
SpecDecode == InitDecode /\ [][Decode]_vars

\* A registry of test modules is built and rendered
InitRegistry ==
    ClIdle /\ CodecIdle /\ WriterIdle /\ RenderIdle /\ RegInit /\ TrieInit /\ ExprIdle
    /\ CtxIdle
NextRegistry == register \/ RenderRegistry
SpecRegistry == InitRegistry /\ [][NextRegistry]_vars

\* Stacks are inserted into a trie in every order
InitTrie ==
    ClIdle /\ CodecIdle /\ WriterIdle /\ RenderIdle /\ RegInit /\ TrieInit /\ ExprIdle
    /\ CtxIdle
SpecTrie == InitTrie /\ [][Insert]_vars

\* maybe_remove_convert_frame_suffixes over every bounded stack
InitStrip ==
    ClIdle /\ CodecIdle /\ WriterIdle /\ RenderIdle /\ RegInit /\ StripInit /\ ExprIdle
    /\ CtxIdle
SpecStrip == InitStrip /\ [][RemoveSuffixes]_vars

\* The expression tree of a guard is rendered over every bounded table
InitExpr ==
    ClIdle /\ CodecIdle /\ WriterIdle /\ RenderIdle /\ RegInit /\ TrieInit /\ ExprInit
    /\ CtxIdle
SpecExpr == InitExpr /\ [][RenderExpressionTree]_vars

\* One module rendered against a directory prepared by hand
InitModules ==
    ClIdle /\ CodecIdle /\ RenderIdle /\ RegInit /\ TrieInit /\ ExprIdle /\ ModulesInit
SpecModules == InitModules /\ [][RenderModule]_vars

\* Reads of the context, and a registry run, against a directory prepared by
\* hand
InitRead ==
    ClIdle /\ CodecIdle /\ RenderIdle /\ RegInit /\ TrieInit /\ ExprIdle /\ ReadInit
NextRead == ReadJsonl \/ ReadChromiumEvents \/ RenderDirectory
SpecRead == InitRead /\ [][NextRead]_vars

\* ------------------------------------------------------------------ claims
\* The tags that detect_envelope_type can report for an envelope with a
\* payload, other than the internal "str"
RecognizedTags == DetectableTagSet \ {"str"}

\* C1: the classifier is total: every recognized event-kind tag maps to
\* exactly one of the eight categories, every other tag (the internal "str",
\* any tag not listed) maps to None, and the routings test_envelope_type_routing
\* asserts are the ones returned.
C1_ClassifierTotal ==
    \A i \in DOMAIN cl_output :
        LET tag == cl_output[i].tag
            file == cl_output[i].file
        IN  /\ tag \in RecognizedTags => Len(file) = 1 /\ Unwrap(file) \in FileTypeSet
            /\ tag \notin RecognizedTags => file = None
            /\ tag = "dynamo_output_graph" => file = Some("Graphs")
            /\ tag = "aot_forward_graph" => file = Some("Graphs")
            /\ tag = "inductor_output_code" => file = Some("Codegen")
            /\ tag = "dynamo_guards" => file = Some("Guards")
            /\ tag = "compilation_metrics" => file = Some("CompilationMetrics")
            /\ tag = "chromium_event" => file = Some("ChromiumEvents")
            /\ tag = "artifact" => file = Some("Artifacts")
            /\ tag = "describe_tensor" => file = Some("TensorMetadata")
            /\ tag = "missing_fake_kernel" => file = Some("Export")

\* A run that classified a recognized tag and then the internal tag
C1_Witness ==
    /\ Len(cl_output) = 2
    /\ cl_output[1].tag = "link" /\ cl_output[1].file = Some("Artifacts")
    /\ cl_output[2].tag = "str" /\ cl_output[2].file = None

\* C2: once finalize has returned the manifest, its total_envelopes is the
\* sum of its envelope_counts, and the compile id of every record handed to
\* write_entry is in its compile_ids.
C2_WriterInvariant ==
    phase \in {"finalized", "rendered"} =>
        /\ IsSome(manifest)
        /\ Unwrap(manifest).total_envelopes = SumValues(Unwrap(manifest).envelope_counts)
        /\ \A i \in DOMAIN history :
              (history[i].call = "write_entry" /\ IsSome(history[i].entry.compile_id))
                 => Unwrap(history[i].entry.compile_id) \in Unwrap(manifest).compile_ids

\* A finalized run with a trace span written through write_entry, one written
\* through write_chromium_event and a record carrying a compile id
C2_Witness ==
    /\ phase = "finalized"
    /\ \E i, j, k \in DOMAIN history :
          /\ history[i].call = "write_entry" /\ history[i].file_type = "ChromiumEvents"
          /\ history[j].call = "write_chromium_event"
          /\ history[k].call = "write_entry" /\ IsSome(history[k].entry.compile_id)
    /\ Unwrap(manifest).total_envelopes = 3

\* C3: parse_compile_id(format_compile_id(x)) = x for every combination of
\* present and absent fields; an absent compile id encodes to an absent
\* string and decodes to absent; the three examples encode as stated.
C3_RoundTrip ==
    /\ codec_pc = "decoded" => cid_out = cid_in
    /\ (codec_pc \in {"encoded", "decoded"} /\ cid_in = None) => cid_str = None
    /\ (codec_pc \in {"encoded", "decoded"} /\ cid_in # None) => cid_str # None
    /\ codec_pc \in {"encoded", "decoded"} =>
          /\ cid_in = Some(CompileId(None, Some(0), Some(1), None))
                => cid_str = Some(<<"0", "_", "1">>)
          /\ cid_in = Some(CompileId(None, Some(0), Some(1), Some(2)))
                => cid_str = Some(<<"0", "_", "1", "_", "2">>)
          /\ cid_in = Some(CompileId(Some(3), Some(0), Some(1), None))
                => cid_str = Some(<<"!", "3", "_", "0", "_", "1">>)

\* The autograd example has been encoded and decoded
C3_Witness ==
    /\ codec_pc = "decoded"
    /\ cid_in = Some(CompileId(Some(3), Some(0), Some(1), None))
    /\ cid_str = Some(<<"!", "3", "_", "0", "_", "1">>)
    /\ cid_out = cid_in

\* C4: render_all returns Ok whatever the modules return; the combined
\* output holds, in order, exactly the files, the directory entries and the
\* index contribution of each module that succeeded, and nothing else.
C4_ModuleIsolation ==
    IsSome(rendered) =>
        /\ Unwrap(rendered).ok
        /\ LET c == Unwrap(rendered).output
               succeeded == {i \in DOMAIN modules : modules[i].ok}
               From(i, e) == e.parent = to_string(i)
           IN  /\ \A i \in succeeded :
                    LET o == modules[i].output
                    IN  /\ SelectSeq(c.files, LAMBDA f : From(i, f.path)) = o.files
                        /\ \A k \in DOMAIN o.directory_entries :
                              /\ k \in DOMAIN c.directory_entries
                              /\ SelectSeq(c.directory_entries[k], LAMBDA e : From(i, e.url))
                                    = o.directory_entries[k]
                        /\ IsSome(o.index_contribution) =>
                              Cardinality({n \in DOMAIN c.index_contributions :
                                  c.index_contributions[n] = Unwrap(o.index_contribution)}) = 1
               /\ \A n \in DOMAIN c.files :
                     \E i \in succeeded : From(i, c.files[n].path)
               /\ \A k \in DOMAIN c.directory_entries :
                     \A n \in DOMAIN c.directory_entries[k] :
                        \E i \in succeeded :
                           /\ From(i, c.directory_entries[k][n].url)
                           /\ k \in DOMAIN modules[i].output.directory_entries
               /\ \A n \in DOMAIN c.index_contributions :
                     \E i \in succeeded :
                        modules[i].output.index_contribution = Some(c.index_contributions[n])

\* A registry whose first module failed and whose later modules produced
\* files, entries and an index contribution
C4_Witness ==
    /\ IsSome(rendered)
    /\ Len(modules) = 3
    /\ ~modules[1].ok /\ modules[2].ok /\ modules[3].ok
    /\ Len(modules[2].output.files) = 2
    /\ IsSome(modules[3].output.index_contribution)
    /\ Len(Unwrap(rendered).output.files) = 3

\* history[i] is a record that went through the classifier and was appended
\* to its stream
Ingested(i) ==
    /\ history[i].call = "write_entry"
    /\ history[i].io_ok
    /\ envelope_type_to_file(history[i].entry.entry_type) = Some(history[i].file_type)

FailedMetrics(i) ==
    /\ Ingested(i)
    /\ history[i].entry.entry_type = "compilation_metrics"
    /\ as_str(md_get(history[i].entry.metadata, "fail_type")) # None

StartWithStack(i) ==
    /\ Ingested(i)
    /\ history[i].entry.entry_type = "dynamo_start"
    /\ md_get(history[i].entry.metadata, "stack") # None

DefaultRendered == phase = "rendered" /\ ~Unwrap(combined).export_mode

\* C5: when a compilation_metrics event with fail_type set and a
\* dynamo_start event with a stack were ingested for one compile id and the
\* default registry was rendered, the combined output has
\* <id>/compilation_metrics.html marked failed, one failures_and_restarts.html
\* listing exactly the failures ingested, and a "Stack Trie" index
\* contribution with a link to the id classed status-error.
C5_EndToEnd ==
    DefaultRendered =>
        \A i, j \in DOMAIN history :
            (/\ FailedMetrics(i) /\ StartWithStack(j)
             /\ history[i].entry.compile_id # None
             /\ history[i].entry.compile_id = history[j].entry.compile_id) =>
                LET id == Unwrap(history[i].entry.compile_id)
                    c == Unwrap(combined).result.output
                    failures == {n \in DOMAIN c.files :
                        c.files[n].path = Path(<<>>, <<"failures_and_restarts.html">>)}
                IN  /\ \E n \in DOMAIN c.files :
                          /\ c.files[n].path = Path(id, <<"compilation_metrics", ".html">>)
                          /\ c.files[n].content.failed
                    /\ Cardinality(failures) = 1
                    /\ \A n \in failures :
                          Len(c.files[n].content.failures)
                             = Cardinality({k \in DOMAIN history : FailedMetrics(k)})
                    /\ \E n \in DOMAIN c.index_contributions :
                          /\ c.index_contributions[n].section = "Stack Trie"
                          /\ \E m \in DOMAIN c.index_contributions[n].html.body :
                                LET piece == c.index_contributions[n].html.body[m]
                                IN  /\ piece.kind = "link"
                                    /\ Some(piece.cid) = parse_compile_id(Some(id))
                                    /\ piece.class = "status-error"

CacheHit(i) ==
    /\ Ingested(i)
    /\ history[i].entry.entry_type = "artifact"
    /\ as_str(md_get(history[i].entry.metadata, "name")) # None
    /\ contains(Unwrap(as_str(md_get(history[i].entry.metadata, "name"))), <<"cache_hit">>)

\* C6: an artifact event whose name contains cache_hit, ingested and rendered
\* with the default registry, is rendered by the cache renderer: one file
\* for it, a directory entry with the hit glyph, the hits counted in the
\* cache summary; and no directory entry for it without the glyph.
C6_CacheDispatch ==
    DefaultRendered =>
        \A i \in DOMAIN history :
            CacheHit(i) =>
                LET id == compile_id_or(history[i].entry, "unknown")
                    fname == Unwrap(as_str(md_get(history[i].entry.metadata, "name")))
                                \o <<".txt">>
                    c == Unwrap(combined).result.output
                    same == {k \in DOMAIN history :
                                CacheHit(k) /\ history[k].entry = history[i].entry}
                IN  /\ Cardinality({n \in DOMAIN c.files : c.files[n].path = Path(id, fname)})
                          = Cardinality(same)
                    /\ id \in DOMAIN c.directory_entries
                    /\ \E n \in DOMAIN c.directory_entries[id] :
                          /\ c.directory_entries[id][n].name = fname
                          /\ c.directory_entries[id][n].suffix = cache_suffix("Hit")
                    /\ \A n \in DOMAIN c.directory_entries[id] :
                          c.directory_entries[id][n].name = fname
                             => c.directory_entries[id][n].suffix = cache_suffix("Hit")
                    /\ \E n \in DOMAIN c.index_contributions :
                          /\ c.index_contributions[n].section = "Cache Status"
                          /\ c.index_contributions[n].html.hits
                                = Cardinality({k \in DOMAIN history : CacheHit(k)})

\* C7: every category a registered module subscribes to, and every category
\* a module has read when rendering is over, is one of the eight categories,
\* one the classifier routes some tag into and for which the intermediate
\* directory holds a stream file.
C7_DeclaredCategories ==
    /\ \A registry \in {with_defaults, for_export_mode} :
          \A i \in DOMAIN registry : registry[i].subscriptions \subseteq FileTypeSet
    /\ phase = "rendered" =>
          \A file_type \in read_log :
              /\ file_type \in FileTypeSet
              /\ \E tag \in DetectableTagSet : envelope_type_to_file(tag) = Some(file_type)
              /\ stream_name(file_type) \in DOMAIN dir

\* The frame identities of a stack, root first, and the nodes on the way
FrameKeys(stack) == [n \in DOMAIN stack |-> FrameKey_from(stack[n])]
Prefixes(path) == {SubSeq(path, 1, n) : n \in 0..Len(path)}
Occurrences(list, x) == Cardinality({n \in DOMAIN list : list[n] = x})

\* C8: whatever the order of the insertions, the trie's nodes are exactly
\* the prefixes of the inserted stacks' frame identities, each node's
\* children are the frames that extend it, and the multiset of compile ids
\* at a node is the multiset of the compile ids inserted with the stack that
\* leads to it; so insertions with identical stacks end at the same node.
C8_TrieInvariant ==
    LET nodes == {<<>>} \cup UNION {Prefixes(FrameKeys(inserted[i].stack)) : i \in DOMAIN inserted}
        At(path) == {i \in DOMAIN inserted : FrameKeys(inserted[i].stack) = path}
    IN  /\ DOMAIN trie_root.children = nodes
        /\ DOMAIN trie_root.terminal = nodes
        /\ \A path \in nodes :
              /\ Len(trie_root.terminal[path]) = Cardinality(At(path))
              /\ \A compile_id \in TrieCompileIds :
                    Occurrences(trie_root.terminal[path], compile_id)
                       = Cardinality({i \in At(path) : inserted[i].compile_id = compile_id})
              /\ \A key \in {trie_root.children[path][n] : n \in DOMAIN trie_root.children[path]} :
                    Occurrences(trie_root.children[path], key) = 1
              /\ {Append(path, trie_root.children[path][n]) : n \in DOMAIN trie_root.children[path]}
                    = {q \in nodes : Len(q) = Len(path) + 1 /\ SubSeq(q, 1, Len(path)) = path}

\* Two insertions of one two-frame stack with different compile ids: both
\* ids are at the node the stack leads to
C8_Witness ==
    /\ Len(inserted) = 2
    /\ Len(inserted[1].stack) = 2
    /\ inserted[1].stack = inserted[2].stack
    /\ inserted[1].compile_id # inserted[2].compile_id
    /\ trie_root.terminal[FrameKeys(inserted[1].stack)]
          = <<inserted[1].compile_id, inserted[2].compile_id>>

\* C9: render_expression_tree returns for every table, cyclic ones included;
\* a node's content (or its not-found note) is rendered only at depths up to
\* the limit, the placeholder only at the depth after it, and a node at the
\* limit that has arguments is followed by the placeholder, not by a child.
C9_DepthLimit ==
    IsSome(expr_html) =>
        LET html == Unwrap(expr_html)
        IN  \A n \in DOMAIN html :
               /\ html[n].depth <= MAX_DEPTH + 1
               /\ html[n].kind \in {"node", "not_found"} => html[n].depth <= MAX_DEPTH
               /\ html[n].kind = "max_depth" => html[n].depth = MAX_DEPTH + 1
               /\ (html[n].kind = "node" /\ html[n].depth = MAX_DEPTH
                   /\ expr_table[html[n].node].argument_ids # <<>>)
                     => (n < Len(html) /\ html[n + 1].kind = "max_depth")

\* The cycle 1 -> 2 -> 1 rendered from node 1: the recursion stopped with the
\* placeholder
C9_Witness ==
    /\ IsSome(expr_html)
    /\ expr_root = 1
    /\ DOMAIN expr_table = {1, 2}
    /\ expr_table[1].argument_ids = <<2>>
    /\ expr_table[2].argument_ids = <<1>>
    /\ Len(Unwrap(expr_html)) = MAX_DEPTH + 2
    /\ Unwrap(expr_html)[MAX_DEPTH + 2].kind = "max_depth"

\* What a step leaves alone once the writer has been consumed by finalize
WriterFrozen ==
    phase \in {"finalized", "failed", "rendered"} =>
        /\ history' = history
        /\ total_envelopes' = total_envelopes
        /\ envelope_counts' = envelope_counts
        /\ compile_ids' = compile_ids
        /\ ranks' = ranks
        /\ chromium_events' = chromium_events
        /\ dir' = dir
        /\ manifest' = manifest

\* C10: once finalize has been called on the writer, no call is made on it
\* again and the record count, the per-kind counts, the id sets, the streams
\* and the manifest stay as they are.
C10_FinalizeLast == [][WriterFrozen]_vars

\* A writer finalized after one write, before the run's write budget is used
\* up, and then rendered
C10_Witness ==
    /\ phase = "rendered"
    /\ Len(history) = 2
    /\ history[1].call = "write_entry"
    /\ history[2].call = "finalize"
    /\ Len(history) < MaxWrites
    /\ Unwrap(manifest).total_envelopes = 1

\* The calls of history that handed a record to the writer for file_type and
\* returned Ok, and the records they carried, in call order
WrittenTo(h, file_type) ==
    LET calls == SelectSeq(h, LAMBDA c : /\ c.call \in {"write_entry", "write_chromium_event"}
                                         /\ c.file_type = file_type
                                         /\ c.io_ok)
    IN  [i \in 1..Len(calls) |-> calls[i].entry]

\* C11: after finalize, manifest.files lists a category's file name if and
\* only if at least one record was written to that category, and has_entries
\* is true exactly for the categories that received a record.
C11_ManifestFiles ==
    phase \in {"finalized", "rendered"} =>
        \A ft \in FileTypeSet :
            LET m == Unwrap(manifest)
                received == WrittenTo(history, ft) # <<>>
            IN  /\ (\E i \in 1..Len(m.files) : m.files[i] = filename(ft)) <=> received
                /\ has_entries(m, ft) <=> received

\* What a step does with trace-span events: a write to the trace-span
\* category appends the event to the buffer and leaves every stream alone,
\* and the array file, once written, holds the events written so far in order
TraceSpansBuffered ==
    LET n == Len(history')
        written == WrittenTo(history', "ChromiumEvents")
        events == [i \in 1..Len(written) |-> written[i].metadata]
    IN  /\ (/\ n = Len(history) + 1
            /\ history'[n].call \in {"write_entry", "write_chromium_event"}
            /\ history'[n].file_type = "ChromiumEvents")
               => /\ dir' = dir
                  /\ chromium_events' = Append(chromium_events, history'[n].entry.metadata)
                  /\ total_envelopes' = total_envelopes + 1
                  /\ envelope_counts' =
                        [envelope_counts EXCEPT ![history'[n].entry.entry_type] = @ + 1]
        /\ chromium_events' = events
        /\ phase' = "open" => filename("ChromiumEvents") \notin DOMAIN dir'
        /\ phase' = "finalized" => filename("ChromiumEvents") \in DOMAIN dir'
        /\ filename("ChromiumEvents") \in DOMAIN dir'
              => dir'[filename("ChromiumEvents")] = events

\* C12: trace-span events are never appended to a line stream: each write to
\* the trace-span category (write_entry with ChromiumEvents, or
\* write_chromium_event) only appends to the in-memory buffer and updates the
\* counters, and finalize emits the buffer as one array holding exactly the
\* buffered events in the order they were written.
C12_TraceSpansBuffered == [][TraceSpansBuffered]_vars

\* Two different events written through the two entry points, then finalize
C12_Witness ==
    /\ phase = "finalized"
    /\ Len(history) = 3
    /\ history[1].call = "write_chromium_event"
    /\ history[2].call = "write_entry" /\ history[2].file_type = "ChromiumEvents"
    /\ dir[filename("ChromiumEvents")] = <<[name |-> JStr(<<"span">>)], EmptyObject>>

\* What a step does with the line streams: each holds the records written to
\* its category so far, in order, and a write touches its own stream only
StreamsInOrder ==
    LET n == Len(history')
    IN  /\ \A ft \in JsonlFileTypes : dir'[filename(ft)] = WrittenTo(history', ft)
        /\ (n = Len(history) + 1 /\ history'[n].call = "write_entry")
              => \A ft \in JsonlFileTypes \ {history'[n].file_type} :
                    dir'[filename(ft)] = dir[filename(ft)]

\* C13: after any sequence of write_entry calls each line stream holds
\* exactly the records written with its category, one line per record, in
\* the order they were written; a write to one category leaves every other
\* category's stream unchanged.
C13_StreamsInOrder == [][StreamsInOrder]_vars

\* Two different records in one stream, with a record of another category
\* written between them
C13_Witness ==
    /\ Len(history) = 3
    /\ \A i \in 1..3 : history[i].call = "write_entry" /\ history[i].io_ok
    /\ history[1].file_type = "CompilationMetrics"
    /\ history[2].file_type = "Graphs"
    /\ history[3].file_type = "CompilationMetrics"
    /\ history[1].entry # history[3].entry
    /\ dir[filename("CompilationMetrics")] = <<history[1].entry, history[3].entry>>
    /\ Len(dir[filename("Graphs")]) = 1

\* The status the records of a metrics stream give a compile id: the metrics
\* records carrying that id, then error, empty, break, ok in that order
RecordedStatus(records, cid) ==
    LET recs == SelectSeq(records,
                          LAMBDA e : /\ e.entry_type = "compilation_metrics"
                                     /\ e.compile_id = format_compile_id(Some(cid)))
        AnyOf(P(_)) == \E i \in 1..Len(recs) : P(recs[i].metadata)
        failure(md) == md.fail_type.t # "null"
        zero_ops(md) == md.graph_op_count = JNum(0)
        restarts(md) == md.restart_reasons.t = "arr" /\ md.restart_reasons.v # <<>>
    IN  IF recs = <<>> THEN "status-missing"
        ELSE IF AnyOf(failure) THEN "status-error"
        ELSE IF AnyOf(zero_ops) THEN "status-empty"
        ELSE IF AnyOf(restarts) THEN "status-break"
        ELSE "status-ok"

\* C14: the status class of a compile id in the rendered stack trie is
\* "error" if any compilation-metrics record for that id carries a failure,
\* else "empty" if any recorded zero graph operations, else "break" if any
\* recorded non-empty restart reasons, else "ok"; and "missing" if the id has
\* no compilation-metrics record.
C14_StatusClass ==
    (IsSome(module_output) /\ Unwrap(module_output).id = "stack_trie") =>
        LET contribution == Unwrap(module_output).result.output.index_contribution
            body == Unwrap(contribution).html.body
        IN  IsSome(contribution) =>
                \A i \in 1..Len(body) :
                    body[i].kind = "link" =>
                        body[i].class =
                            RecordedStatus(read_jsonl(dir, "CompilationMetrics"), body[i].cid)

\* The metrics records of a stream that carry a non-null fail_type
FailedRecords(records) ==
    SelectSeq(records,
              LAMBDA e : /\ e.entry_type \in {"compilation_metrics", "bwd_compilation_metrics",
                                               "aot_autograd_backward_compilation_metrics"}
                         /\ "fail_type" \in DOMAIN e.metadata
                         /\ e.metadata.fail_type.t # "null")

\* C15: the metrics renderer emits the global failures_and_restarts.html and
\* a failure-count index contribution if and only if at least one metrics
\* record (of any of the three kinds) has a non-null fail_type; it emits the
\* file at most once and the count reported is the number of such records.
C15_FailureTracking ==
    (IsSome(module_output) /\ Unwrap(module_output).id = "compilation_metrics") =>
        LET out == Unwrap(module_output).result.output
            n == Len(FailedRecords(read_jsonl(dir, "CompilationMetrics")))
            global == {i \in 1..Len(out.files) :
                          out.files[i].path = Path(<<>>, <<"failures_and_restarts.html">>)}
        IN  /\ Unwrap(module_output).result.ok
            /\ Cardinality(global) = (IF n >= 1 THEN 1 ELSE 0)
            /\ IsSome(out.index_contribution) <=> n >= 1
            /\ IsSome(out.index_contribution) =>
                  /\ Unwrap(out.index_contribution).section = "Failures and Restarts"
                  /\ Unwrap(out.index_contribution).html.count = n
            /\ \A i \in global : Len(out.files[i].content.failures) = n

\* Two failed records, one of them of a backward kind, and a record that did
\* not fail: one global file, a count of two
C15_Witness ==
    /\ IsSome(module_output) /\ Unwrap(module_output).id = "compilation_metrics"
    /\ LET records == read_jsonl(dir, "CompilationMetrics")
       IN  /\ Len(records) >= 2
           /\ records[1].entry_type = "bwd_compilation_metrics"
           /\ records[1].metadata.fail_type.t = "str"
           /\ records[2].entry_type = "compilation_metrics"
           /\ Len(FailedRecords(records)) = 2
    /\ Unwrap(Unwrap(module_output).result.output.index_contribution).html.count = 2

\* C20: reading a category whose file is absent returns an empty record list
\* and not an error, for every line-delimited category and for the
\* trace-span array.
C20_AbsentIsEmpty ==
    IsSome(ctx_result) =>
        LET read == Unwrap(ctx_result)
        IN  filename(read.file_type) \notin DOMAIN dir =>
                read.result.ok /\ read.result.output = <<>>

\* A read of guards.jsonl in a directory that has other files, one of them
\* malformed, but not that one
C20_Witness ==
    /\ IsSome(ctx_result)
    /\ Unwrap(ctx_result).file_type = "Guards"
    /\ filename("Guards") \notin DOMAIN dir
    /\ filename("Graphs") \in DOMAIN dir
    /\ \E i \in DOMAIN dir[filename("Graphs")] : dir[filename("Graphs")][i] = GarbageLine
    /\ Unwrap(ctx_result).result = Ok(<<>>)

\* The parts the modules that succeeded contribute, one after the other in
\* registration order, from the i-th module on
RECURSIVE InRegistrationOrder(_, _, _)
InRegistrationOrder(results, Part(_), i) ==
    IF i > Len(results) THEN <<>>
    ELSE (IF results[i].ok THEN Part(results[i].output) ELSE <<>>)
         \o InRegistrationOrder(results, Part, i + 1)

\* C16: render_all merges the outputs of the modules that succeeded in
\* registration order: the combined file list is the concatenation of the
\* modules' file lists, each directory key's list is the modules' entries for
\* that key one after the other, and the index contributions form a list, all
\* in registration order.
C16_RegistrationOrder ==
    IsSome(rendered) =>
        LET c == Unwrap(rendered).output
            Files(o) == o.files
            Contribution(o) ==
                IF IsSome(o.index_contribution) THEN <<Unwrap(o.index_contribution)>> ELSE <<>>
            keys == UNION {DOMAIN modules[i].output.directory_entries :
                              i \in {j \in DOMAIN modules : modules[j].ok}}
        IN  /\ c.files = InRegistrationOrder(modules, Files, 1)
            /\ c.index_contributions = InRegistrationOrder(modules, Contribution, 1)
            /\ DOMAIN c.directory_entries = keys
            /\ \A k \in keys :
                  LET EntriesFor(o) ==
                          IF k \in DOMAIN o.directory_entries
                          THEN o.directory_entries[k] ELSE <<>>
                  IN  c.directory_entries[k] = InRegistrationOrder(modules, EntriesFor, 1)

\* Three modules that all succeeded, each with an entry for the same key,
\* the last two with an index contribution
C16_Witness ==
    /\ IsSome(rendered)
    /\ Len(modules) = 3
    /\ \A i \in 1..3 : modules[i].ok
    /\ Len(modules[1].output.files) = 2
    /\ LET c == Unwrap(rendered).output
       IN  /\ Len(c.files) = 4
           /\ Len(c.directory_entries[<<"0", "_", "0">>]) = 3
           /\ Len(c.index_contributions) = 2
           /\ c.index_contributions[1].section = to_string(2)
           /\ c.index_contributions[2].section = to_string(3)

\* The elements of a list with their number of occurrences
BagOf(list) ==
    [x \in {list[i] : i \in DOMAIN list} |-> Cardinality({i \in DOMAIN list : list[i] = x})]

\* The combined output of the registered modules merged in another order
MergedInOrder(p) == render_all([i \in DOMAIN modules |-> modules[p[i]]]).output

\* C17 as stated: merging the same module outputs in any order yields the
\* same directory entries per key and the same index contributions; only
\* the order of the file list depends on the merge order.
C17_OrderIndependent ==
    IsSome(rendered) =>
        \A p \in Permutations(DOMAIN modules) :
            /\ MergedInOrder(p).directory_entries = Unwrap(rendered).output.directory_entries
            /\ MergedInOrder(p).index_contributions
                  = Unwrap(rendered).output.index_contributions

\* C17, amended: merging the same module outputs in any order yields the same
\* files, the same entries under each directory key and the same index
\* contributions up to their order; the order of the file list, of each
\* key's entries and of the index contributions is the merge order.
C17_OrderIndependentAsBags ==
    IsSome(rendered) =>
        \A p \in Permutations(DOMAIN modules) :
            LET c == Unwrap(rendered).output
                r == MergedInOrder(p)
            IN  /\ BagOf(r.files) = BagOf(c.files)
                /\ DOMAIN r.directory_entries = DOMAIN c.directory_entries
                /\ \A k \in DOMAIN c.directory_entries :
                      BagOf(r.directory_entries[k]) = BagOf(c.directory_entries[k])
                /\ BagOf(r.index_contributions) = BagOf(c.index_contributions)

\* Two modules that both have an entry under the same key and an index
\* contribution: merged the other way round both lists come out reversed
C17_Witness ==
    /\ IsSome(rendered)
    /\ Len(modules) = 2
    /\ modules[1].ok /\ modules[2].ok
    /\ IsSome(modules[1].output.index_contribution)
    /\ IsSome(modules[2].output.index_contribution)
    /\ LET c == Unwrap(rendered).output
           r == MergedInOrder(<<2, 1>>)
       IN  /\ Len(c.directory_entries[<<"0", "_", "0">>]) = 2
           /\ r.directory_entries # c.directory_entries
           /\ r.index_contributions # c.index_contributions

\* C18: in the combined output of a registry run no output path is written
\* twice: no two files, of one module or of two, have the same relative path.
C18_UniquePaths ==
    IsSome(combined) =>
        LET files == Unwrap(combined).result.output.files
        IN  \A i, j \in DOMAIN files : i # j => files[i].path # files[j].path

\* What a rendering step leaves alone: the streams, the trace-span array,
\* the manifest and the writer's bookkeeping
RenderReadsOnly ==
    combined' # combined =>
        /\ dir' = dir
        /\ manifest' = manifest
        /\ chromium_events' = chromium_events
        /\ history' = history

\* C19: rendering is read-only over the intermediate set: render on a
\* module, or render_all on a registry, leaves every category stream, the
\* trace-span array and the manifest unchanged; the modules return their
\* files in the output value.
C19_RenderReadsOnly == [][RenderReadsOnly]_vars

\* A run rendered with the default registry that returned files, among them
\* the trace viewer's chromium_events.json, while the intermediate directory
\* still holds the array the writer put there
C19_Witness ==
    /\ phase = "rendered"
    /\ IsSome(combined)
    /\ ~Unwrap(combined).export_mode
    /\ LET files == Unwrap(combined).result.output.files
       IN  \E i \in DOMAIN files :
              /\ files[i].path = Path(<<>>, <<"chromium_events.json">>)
              /\ files[i].content.events = dir[filename("ChromiumEvents")]
    /\ dir[filename("ChromiumEvents")] # <<>>
    /\ Unwrap(manifest) = dir["manifest.json"]

\* The lines of a file that are not blank, and whether each of them parses
NonBlank(lines) == SelectSeq(lines, LAMBDA l : l # BlankLine)
AllParse(lines) == \A i \in DOMAIN lines : lines[i] # GarbageLine

\* The categories a module reads whose file holds a line that does not parse
Unreadable(module, d) ==
    {ft \in module.reads : stream_name(ft) \in DOMAIN d /\ ~AllParse(d[stream_name(ft)])}

\* The directory with blank lines dropped from every file
Parsed(d) == [n \in DOMAIN d |-> NonBlank(d[n])]

\* The registry run in which only the modules that read no unreadable
\* category take part
RECURSIVE MergedReadable(_, _, _, _)
MergedReadable(registry, d, export_mode, i) ==
    IF i = 0 THEN EmptyCombined
    ELSE LET before == MergedReadable(registry, d, export_mode, i - 1)
         IN  IF Unreadable(registry[i], d) # {} THEN before
             ELSE merge(before, render(registry[i], Parsed(d), export_mode).output)

\* C21: a category read is all-or-nothing: read_jsonl returns every
\* non-blank line of the stream, parsed and in file order, or an error when a
\* non-blank line does not parse, never a partial list; the error is fatal
\* only to the modules whose render reads that category, each of which then
\* contributes nothing, while the run continues and returns success.
C21_AllOrNothing ==
    /\ IsSome(ctx_result) =>
          LET read == Unwrap(ctx_result)
              n == stream_name(read.file_type)
          IN  (read.file_type # "ChromiumEvents" /\ n \in DOMAIN dir) =>
                  IF AllParse(dir[n])
                  THEN read.result.ok /\ read.result.output = NonBlank(dir[n])
                  ELSE read.result = Err
    /\ IsSome(combined) =>
          LET run == Unwrap(combined)
              registry == IF run.export_mode THEN for_export_mode ELSE with_defaults
          IN  /\ run.result.ok
              /\ run.result.output =
                    MergedReadable(registry, dir, run.export_mode, Len(registry))

\* A default-registry run over a directory whose guards stream has a line
\* that does not parse and whose graphs stream is well formed: the run
\* returned the graph files, nothing for guards, and a later read of the
\* guards stream returned the error
C21_Witness ==
    /\ IsSome(combined)
    /\ ~Unwrap(combined).export_mode
    /\ filename("Guards") \in DOMAIN dir /\ ~AllParse(dir[filename("Guards")])
    /\ filename("Graphs") \in DOMAIN dir /\ AllParse(dir[filename("Graphs")])
    /\ Unwrap(combined).result.ok
    /\ Len(Unwrap(combined).result.output.files) = 2
    /\ IsSome(ctx_result)
    /\ Unwrap(ctx_result).file_type = "Guards"
    /\ Unwrap(ctx_result).result = Err

\* C22: decode is forgiving: for every present compile-id string, whatever
\* its content, parse_compile_id returns a compile id and never an error;
\* each positional piece that is missing or is not a number yields None for
\* exactly that field, and the value decoded for a field depends on no other
\* piece.
C22_ForgivingDecode ==
    codec_pc = "decoded" =>
        LET input == Unwrap(cid_in)
            \* without '!' the first piece is the frame id
            first == IF input.bang THEN 1 ELSE 0
            Field(j) == IF j >= 1 /\ j <= Len(input.tokens)
                        THEN input.tokens[j].value ELSE None
        IN  /\ IsSome(cid_out)
            /\ Unwrap(cid_out) =
                  CompileId(IF input.bang THEN Field(1) ELSE None,
                            Field(first + 1), Field(first + 2), Field(first + 3))

\* " !x_12_1x " decoded: the autograd id and the frame compile id are None
\* because their pieces are not numbers, the attempt is None because its
\* piece is missing, and the frame id is 12
C22_Witness ==
    /\ codec_pc = "decoded"
    /\ cid_str = Some(<<" ", "!", "x", "_", "1", "2", "_", "1", "x", " ">>)
    /\ cid_out = Some(CompileId(None, Some(12), None, None))

\* The write calls of the run, in order, and the counters a manifest carries
WriteHistory == SelectSeq(history, LAMBDA h : h.call # "finalize")
ManifestCounters(m) ==
    [total_envelopes |-> m.total_envelopes, envelope_counts |-> m.envelope_counts,
     compile_ids |-> m.compile_ids, ranks |-> m.ranks]

\* The counters of a writer that is given the calls in this order
CountersOf(calls) == FoldLeft(counted, ZeroCounters, calls)

\* Counters of two writers combined: counts are summed, id and rank sets
\* are united
Combined(c1, c2) ==
    [total_envelopes |-> c1.total_envelopes + c2.total_envelopes,
     envelope_counts |-> [t \in TagUniverse |->
                            c1.envelope_counts[t] + c2.envelope_counts[t]],
     compile_ids |-> c1.compile_ids \cup c2.compile_ids,
     ranks |-> c1.ranks \cup c2.ranks]

\* The combined counters of independent writers, one per category, each
\* given the calls of its category
SplitByCategory(calls) ==
    LET Add(acc, ft) ==
            Combined(acc, CountersOf(SelectSeq(calls, LAMBDA c : c.file_type = ft)))
    IN  FoldLeft(Add, ZeroCounters, AllFileTypes)

\* C23: the manifest does not depend on the order of writes: the total
\* count, the per-kind counts, the compile-id list and the rank list that
\* finalize produces are those of every reordering of the records written,
\* and equal the sum (counts) and union (ids, ranks) of the counters of
\* independent writers that are each given the records of one category.
C23_OrderFree ==
    phase = "finalized" =>
        LET calls == WriteHistory
            m == ManifestCounters(Unwrap(manifest))
        IN  /\ \A p \in Permutations(DOMAIN calls) :
                  CountersOf([i \in DOMAIN calls |-> calls[p[i]]]) = m
            /\ SplitByCategory(calls) = m

\* A finalized run of three records of three categories, two compile ids and
\* two ranks, one of them a trace span
C23_Witness ==
    /\ phase = "finalized"
    /\ Len(WriteHistory) = 3
    /\ Cardinality({WriteHistory[i].file_type : i \in DOMAIN WriteHistory}) = 3
    /\ \E i \in DOMAIN WriteHistory : WriteHistory[i].call = "write_chromium_event"
    /\ Cardinality(Unwrap(manifest).compile_ids) = 2
    /\ Unwrap(manifest).ranks = {0, 1}
    /\ Unwrap(manifest).total_envelopes = 3

\* The records of the stacks stream that put a stack into the trie: the
\* dynamo_start records whose metadata has a stack that is a list of frames
Qualifying(d) ==
    IF "stacks.jsonl" \notin DOMAIN d THEN <<>>
    ELSE SelectSeq(d["stacks.jsonl"],
                   LAMBDA e : /\ e.entry_type = "dynamo_start"
                              /\ "stack" \in DOMAIN e.metadata
                              /\ e.metadata["stack"].t = "arr")

\* C24: a stack trie built from zero qualifying records (no dynamo_start
\* record with a stack) is empty, and the stack-trie module then returns an
\* output with no files, no directory entries and no index contribution;
\* whenever at least one stack was inserted the module contributes exactly
\* one "Stack Trie" section (and still no file and no directory entry).
C24_EmptyTrie ==
    (IsSome(module_output) /\ Unwrap(module_output).id = "stack_trie") =>
        LET result == Unwrap(module_output).result
        IN  /\ result.ok
            /\ result.output.files = <<>>
            /\ result.output.directory_entries = <<>>
            /\ IF Qualifying(dir) = <<>>
               THEN /\ build_stack_trie(dir) = EmptyTrie
                    /\ result.output.index_contribution = None
               ELSE /\ IsSome(result.output.index_contribution)
                    /\ Unwrap(result.output.index_contribution).section = "Stack Trie"

\* The stack-trie module rendered over a stacks stream whose only qualifying
\* record has a stack of no frame, next to a dynamo_start with no stack: the
\* section is contributed
C24_Witness ==
    /\ IsSome(module_output)
    /\ Unwrap(module_output).id = "stack_trie"
    /\ "stacks.jsonl" \in DOMAIN dir
    /\ Len(dir["stacks.jsonl"]) = 2
    /\ Len(Qualifying(dir)) = 1
    /\ Qualifying(dir)[1].metadata["stack"].v = <<>>
    /\ IsSome(Unwrap(module_output).result.output.index_contribution)

\* The artifacts of the cache stream, in order, and the name the renderer
\* takes for each
CacheArtifacts(d) == SelectSeq(d["cache.jsonl"], LAMBDA e : e.entry_type = "artifact")
ArtifactName(e) ==
    IF "name" \in DOMAIN e.metadata THEN e.metadata["name"].v ELSE <<"cache_artifact">>
HasToken(name, token) == \E i \in DOMAIN name : name[i] = token

\* The glyph the claim gives a name: hit before miss before bypass
Glyph(name) ==
    CASE HasToken(name, "cache_hit") -> "U+2705"
      [] ~HasToken(name, "cache_hit") /\ HasToken(name, "cache_miss") -> "U+274C"
      [] ~HasToken(name, "cache_hit") /\ ~HasToken(name, "cache_miss")
         /\ HasToken(name, "cache_bypass") -> "U+2753"
      [] OTHER -> ""

\* C25: the cache renderer annotates each artifact by name substring with a
\* fixed glyph: a name containing cache_hit gets the check mark and counts
\* as a hit, else one containing cache_miss gets the cross and counts as a
\* miss, else one containing cache_bypass gets the question mark and counts
\* as a bypass, else the empty suffix and no count; the summary's hit, miss
\* and bypass counts are the numbers of artifacts so classified, and the
\* summary is contributed only when one of them is not zero.
C25_CacheGlyphs ==
    (IsSome(module_output) /\ Unwrap(module_output).id = "cache"
                           /\ "cache.jsonl" \in DOMAIN dir) =>
        LET out == Unwrap(module_output).result.output
            artifacts == CacheArtifacts(dir)
            key(i) == compile_id_or(artifacts[i], "unknown")
            \* the place of the i-th artifact among the entries of its key
            place(i) == Cardinality({j \in 1..i : key(j) = key(i)})
            Count(g) == Cardinality({i \in DOMAIN artifacts :
                                        Glyph(ArtifactName(artifacts[i])) = g})
        IN  /\ Unwrap(module_output).result.ok
            /\ Len(out.files) = Len(artifacts)
            /\ \A i \in DOMAIN artifacts :
                  /\ key(i) \in DOMAIN out.directory_entries
                  /\ place(i) <= Len(out.directory_entries[key(i)])
                  /\ out.directory_entries[key(i)][place(i)].suffix =
                        Glyph(ArtifactName(artifacts[i]))
            /\ IF Count("U+2705") + Count("U+274C") + Count("U+2753") = 0
               THEN out.index_contribution = None
               ELSE /\ IsSome(out.index_contribution)
                    /\ Unwrap(out.index_contribution).section = "Cache Status"
                    /\ Unwrap(out.index_contribution).html.hits = Count("U+2705")
                    /\ Unwrap(out.index_contribution).html.misses = Count("U+274C")
                    /\ Unwrap(out.index_contribution).html.bypasses = Count("U+2753")

\* The cache module rendered over an artifact whose name has both the miss
\* and the hit pattern and an artifact whose name has none: one hit, no miss
C25_Witness ==
    /\ IsSome(module_output)
    /\ Unwrap(module_output).id = "cache"
    /\ "cache.jsonl" \in DOMAIN dir
    /\ Len(CacheArtifacts(dir)) = 2
    /\ ArtifactName(CacheArtifacts(dir)[1]) = <<"cache_miss", "_", "cache_hit">>
    /\ ArtifactName(CacheArtifacts(dir)[2]) = <<"fx_graph">>
    /\ Unwrap(Unwrap(module_output).result.output.index_contribution).html =
          [kind |-> "cache_summary", hits |-> 1, misses |-> 0, bypasses |-> 0]

\* The dynamo_cpp_guards_str records the writer appended to a stream, and
\* the files of that name in the combined output
CppGuardsWritten ==
    SelectSeq(history, LAMBDA h : /\ h.call = "write_entry"
                                  /\ h.entry.entry_type = "dynamo_cpp_guards_str"
                                  /\ h.io_ok)
CppGuardsFiles(cid) ==
    LET files == Unwrap(combined).result.output.files
    IN  {i \in DOMAIN files : files[i].path = Path(cid, <<"dynamo_cpp_guards_str.txt">>)}

\* C26: every dynamo_cpp_guards_str event accepted by the classifier and
\* written by the writer is rendered, by the default registry, as exactly
\* one file <compile id>/dynamo_cpp_guards_str.txt produced by the guards
\* module (the artifact renderer skips the record): for each compile id
\* there are as many such files as events written, and the guards module's
\* own output holds them.
C26_CppGuardsRendered ==
    (IsSome(combined) /\ ~Unwrap(combined).export_mode) =>
        \A k \in DOMAIN CppGuardsWritten :
            LET cid == compile_id_or(CppGuardsWritten[k].entry, "unknown")
                written == {j \in DOMAIN CppGuardsWritten :
                               compile_id_or(CppGuardsWritten[j].entry, "unknown") = cid}
                by_guards == GuardsModule_render(dir).files
            IN  /\ IsSome(envelope_type_to_file("dynamo_cpp_guards_str"))
                /\ Cardinality(CppGuardsFiles(cid)) = Cardinality(written)
                /\ Cardinality({i \in DOMAIN by_guards :
                        by_guards[i].path = Path(cid, <<"dynamo_cpp_guards_str.txt">>)})
                      = Cardinality(written)

\* Whether the last three frames of a stack are, pairwise on (simplified
\* file name, function name), the frames of a target sequence
EndsWith(frames, target_frames) ==
    /\ Len(frames) >= 3
    /\ \A i \in 1..3 :
          LET frame == frames[Len(frames) - 3 + i]
              fname == IF IsSome(frame.uninterned_filename)
                       THEN Unwrap(frame.uninterned_filename) ELSE <<"(unknown)">>
              \* the part after "#link-tree/", if the name has one
              simplified == IF \E k \in DOMAIN fname : fname[k] = "#link-tree/"
                            THEN <<fname[Len(fname)]>> ELSE fname
          IN  simplified = ConvertFramePy /\ frame.name = target_frames[i]

\* The reference function: the three frames of a matching suffix are removed
Reference(frames) ==
    IF \E t \in DOMAIN all_target_frames : EndsWith(frames, all_target_frames[t])
    THEN SubSeq(frames, 1, Len(frames) - 3)
    ELSE frames

\* C27: harness-suffix stripping equals the reference function: if the last
\* three frames of a stack match, pairwise on (simplified filename, function
\* name), one of the two known target sequences, exactly those three frames
\* are removed; otherwise the stack is unchanged.  It never removes more than
\* three frames, never removes a frame that is not part of a matching
\* suffix, and is defined for stacks of every length, including stacks
\* shorter than three frames.
C27_SuffixStripping ==
    IsSome(stack_out) =>
        LET frames == Unwrap(stack_in)
            left == Unwrap(stack_out)
        IN  /\ left = Reference(frames)
            /\ Len(frames) - Len(left) \in {0, 3}
            /\ left = SubSeq(frames, 1, Len(left))
            /\ Len(frames) < 3 => left = frames

\* A stack of six frames that ends with the first target sequence above the
\* second: the last three frames are removed and the three under them, which
\* match the second sequence, are kept
C27_Witness ==
    /\ IsSome(stack_out)
    /\ Len(Unwrap(stack_in)) = 6
    /\ EndsWith(Unwrap(stack_in), all_target_frames[1])
    /\ EndsWith(Unwrap(stack_out), all_target_frames[2])
    /\ Len(Unwrap(stack_out)) = 3

\* The pieces of a rendered trie that show the terminal t: a link to the
\* compile id when it is present, "(unknown)" when it is absent
Shown(body, t) ==
    {i \in DOMAIN body :
        IF IsSome(t) THEN body[i].kind = "link" /\ body[i].cid = Unwrap(t)
        ELSE body[i].kind = "unknown"}

\* The qualifying records that recorded the terminal t
Recorded(d, t) ==
    {i \in DOMAIN Qualifying(d) : parse_compile_id(Qualifying(d)[i].compile_id) = t}

\* C28: trie rendering is complete: every compile id recorded as a terminal
\* anywhere in the trie, including at the root node (the terminal of a stack
\* with zero frames), is rendered exactly once per insertion, as a
\* status-classed link when the id is present and as "(unknown)" when it is
\* absent.
C28_RenderingComplete ==
    (IsSome(module_output) /\ Unwrap(module_output).id = "stack_trie") =>
        LET contribution == Unwrap(module_output).result.output.index_contribution
            body == Unwrap(contribution).html.body
            terminals == {parse_compile_id(Qualifying(dir)[i].compile_id) :
                             i \in DOMAIN Qualifying(dir)}
        IN  IsSome(contribution) =>
                /\ \A t \in terminals :
                      Cardinality(Shown(body, t)) = Cardinality(Recorded(dir, t))
                /\ \A i \in DOMAIN body :
                      body[i].kind = "link" =>
                          body[i].class \in {"status-error", "status-empty", "status-break",
                                             "status-ok", "status-missing"}

\* The calls whose append to the category stream failed
FailedWrites == SelectSeq(WriteHistory, LAMBDA h : ~h.io_ok)

\* The records held by the category streams and the chromium event list
StoredRecords ==
    LET streams == {filename(ft) : ft \in JsonlFileTypes}
    IN  SumOver([n \in streams |-> Len(dir[n])], streams) + Len(chromium_events)

\* C29: write_entry updates the counters before it appends: when the append
\* to the category stream fails with an I/O error, the total count, the
\* per-kind count, the compile-id set and the rank set already include the
\* failed record, so the counters are not rolled back and exceed the number
\* of records in the streams; the error is returned to the caller and is
\* never swallowed.
C29_CountedBeforeAppend ==
    /\ [total_envelopes |-> total_envelopes, envelope_counts |-> envelope_counts,
        compile_ids |-> compile_ids, ranks |-> ranks] = CountersOf(WriteHistory)
    /\ total_envelopes = StoredRecords + Len(FailedWrites)
    /\ \A i \in DOMAIN FailedWrites :
          LET e == FailedWrites[i].entry
          IN  /\ IsSome(e.compile_id) => Unwrap(e.compile_id) \in compile_ids
              /\ IsSome(e.rank) => Unwrap(e.rank) \in ranks
              /\ envelope_counts[e.entry_type] >=
                    Len(SelectSeq(FailedWrites, LAMBDA h : h.entry.entry_type = e.entry_type))
    /\ FailedWrites # <<>> => total_envelopes > StoredRecords
    /\ (history # <<>> /\ history[Len(history)].call = "write_entry") =>
          (last_result = "err" <=> ~history[Len(history)].io_ok)

\* a write has just failed on a record that carries a compile id and a rank
C29_Witness ==
    /\ history # <<>>
    /\ history[Len(history)].call = "write_entry"
    /\ ~history[Len(history)].io_ok
    /\ last_result = "err"
    /\ IsSome(history[Len(history)].entry.compile_id)
    /\ IsSome(history[Len(history)].entry.rank)
    /\ Unwrap(history[Len(history)].entry.compile_id) \in compile_ids
    /\ total_envelopes > StoredRecords

\* The status compile_directory.json gives each compile id of a directory
StatusOf(d) ==
    LET directory == CompileDirectoryModule_render(d).files[1].content.directory
    IN  [k \in DOMAIN directory |-> directory[k].status]

\* The compilation_metrics records of the compile id k that the module
\* reads, in the order it reads them
MetricsOf(d, k) ==
    LET Read(acc, file_type) == acc \o read_jsonl(d, file_type)
    IN  SelectSeq(FoldLeft(Read, <<>>, CompileDirectory_subscriptions),
                  LAMBDA e : /\ e.entry_type = "compilation_metrics"
                             /\ compile_id_or(e, "__global__") = k)

Failed(e) == "fail_type" \in DOMAIN e.metadata /\ e.metadata["fail_type"].t # "null"

\* The directory with its metrics stream reordered by p, and cut to its
\* first n records
Reordered(d, p) ==
    [d EXCEPT !["compilation_metrics.jsonl"] = [i \in DOMAIN @ |-> @[p[i]]]]
CutTo(d, n) ==
    [d EXCEPT !["compilation_metrics.jsonl"] = SubSeq(@, 1, n)]

\* C30: in compile_directory.json the status of a compile id does not depend
\* on record order: it is "failure" if and only if at least one
\* compilation_metrics record of that id has a non-null fail_type, once it
\* is "failure" no later record changes it, and it is "success" only if no
\* record of that id failed and at least one compilation_metrics record of
\* that id has no fail_type field.
C30_StatusOrderFree ==
    (/\ IsSome(module_output)
     /\ Unwrap(module_output).id = "compile_directory"
     /\ "compilation_metrics.jsonl" \in DOMAIN dir) =>
        LET status == StatusOf(dir)
            stream == dir["compilation_metrics.jsonl"]
        IN  /\ DOMAIN status =
                 DOMAIN Unwrap(module_output).result.output.files[1].content.directory
            /\ \A k \in DOMAIN status :
                  LET metrics == MetricsOf(dir, k)
                  IN  /\ status[k] = "failure" <=>
                            \E i \in DOMAIN metrics : Failed(metrics[i])
                      /\ status[k] = "success" =>
                            /\ \A i \in DOMAIN metrics : ~Failed(metrics[i])
                            /\ \E i \in DOMAIN metrics :
                                  "fail_type" \notin DOMAIN metrics[i].metadata
                      /\ Unwrap(module_output).result.output.files[1]
                             .content.directory[k].status = status[k]
            /\ \A p \in Permutations(DOMAIN stream) : StatusOf(Reordered(dir, p)) = status
            /\ \A n \in 0..Len(stream) :
                  \A k \in DOMAIN StatusOf(CutTo(dir, n)) :
                      StatusOf(CutTo(dir, n))[k] = "failure" => status[k] = "failure"

\* a compile id failed and a later record of it has no fail_type field
C30_Witness ==
    /\ IsSome(module_output)
    /\ Unwrap(module_output).id = "compile_directory"
    /\ "compilation_metrics.jsonl" \in DOMAIN dir
    /\ \E k \in DOMAIN StatusOf(dir) :
          LET metrics == MetricsOf(dir, k)
          IN  /\ StatusOf(dir)[k] = "failure"
              /\ \E i, j \in DOMAIN metrics :
                    /\ i < j
                    /\ Failed(metrics[i])
                    /\ "fail_type" \notin DOMAIN metrics[j].metadata

====
